---- MODULE Spec2Model ----
(***************************************************************************)
(* A model of the scratchstack ARN crate (src/arn/src): the segment        *)
(* validators, Arn construction / parsing / formatting, and the glob-style *)
(* ArnSegmentPattern / ArnPattern matcher.                                 *)
(*                                                                         *)
(* A Rust `&str` is modelled as a sequence of characters.  A character is  *)
(* a one-character TLA+ string for ASCII, and the token "U+XXXX" for a     *)
(* non-ASCII code point.  Byte offsets (char_indices, as_bytes) are kept   *)
(* through Utf8Len.                                                        *)
(***************************************************************************)
EXTENDS Integers, Sequences, FiniteSets, TLC

VARIABLES pc, in, obj, txt, out

vars == <<pc, in, obj, txt, out>>

(***************************************************************************)
(* Bounds of the explored inputs.                                          *)
(***************************************************************************)
MaxShort == 3
MaxPad == 33
MaxRegionLen == 7
MaxGlobLen == 3

(***************************************************************************)
(* Characters and the std::char predicates the validators call.            *)
(***************************************************************************)
AsciiLower ==
    {"a", "b", "c", "d", "e", "f", "g", "h", "i", "j", "k", "l", "m",
     "n", "o", "p", "q", "r", "s", "t", "u", "v", "w", "x", "y", "z"}

AsciiUpper ==
    {"A", "B", "C", "D", "E", "F", "G", "H", "I", "J", "K", "L", "M",
     "N", "O", "P", "Q", "R", "S", "T", "U", "V", "W", "X", "Y", "Z"}

AsciiDigit == {"0", "1", "2", "3", "4", "5", "6", "7", "8", "9"}

\* U+00E9 (e acute): lowercase letter, 2 bytes.  U+4E2D (CJK "middle"):
\* letter without case, 3 bytes.  U+0663 (Arabic-Indic digit three):
\* numeric but not an ASCII digit, 2 bytes.  U+1F980 (crab): symbol, 4 bytes.
IsAlphabetic(c) == c \in AsciiLower \cup AsciiUpper \cup {"U+00E9", "U+4E2D"}

IsUppercase(c) == c \in AsciiUpper

IsAsciiDigit(c) == c \in AsciiDigit

IsAlphanumeric(c) == IsAlphabetic(c) \/ IsAsciiDigit(c) \/ c = "U+0663"

Utf8Len(c) ==
    CASE c \in {"U+00E9", "U+0663"} -> 2
      [] c = "U+4E2D" -> 3
      [] c = "U+1F980" -> 4
      [] OTHER -> 1

\* str::len: the sum of the UTF-8 widths, one to four bytes per character.
ByteLen(s) ==
    Len(s) + Cardinality({i \in 1..Len(s) : Utf8Len(s[i]) >= 2})
           + Cardinality({i \in 1..Len(s) : Utf8Len(s[i]) >= 3})
           + Cardinality({i \in 1..Len(s) : Utf8Len(s[i]) >= 4})

(***************************************************************************)
(* Result<T, ArnError>.                                                    *)
(***************************************************************************)
None == [tag |-> "none"]

Ok == [ok |-> TRUE]

OkVal(v) == [ok |-> TRUE, val |-> v]

Err(kind, s) == [ok |-> FALSE, err |-> kind, arg |-> s]

(***************************************************************************)
(* utils.rs: validate_partition.  The loop runs over char_indices(), so i  *)
(* is the byte offset of the character, not its ordinal.                   *)
(***************************************************************************)
PartitionMaxLen == 32

RECURSIVE PartitionScan(_, _, _, _)
PartitionScan(partition, k, i, last_was_dash) ==
    IF k > Len(partition) THEN ~last_was_dash
    ELSE IF i = PartitionMaxLen THEN FALSE
    ELSE LET c == partition[k] IN
         IF (IsAlphabetic(c) /\ ~IsUppercase(c)) \/ IsAsciiDigit(c)
         THEN PartitionScan(partition, k + 1, i + Utf8Len(c), FALSE)
         ELSE IF c = "-"
         THEN IF last_was_dash THEN FALSE
              ELSE PartitionScan(partition, k + 1, i + Utf8Len(c), TRUE)
         ELSE FALSE

validate_partition(partition) ==
    IF partition = <<>> THEN Err("InvalidPartition", partition)
    ELSE IF PartitionScan(partition, 1, 0, TRUE) THEN Ok
    ELSE Err("InvalidPartition", partition)

(***************************************************************************)
(* utils.rs: validate_service.                                             *)
(***************************************************************************)
RECURSIVE ServiceScan(_, _, _)
ServiceScan(service, k, last_was_dash) ==
    IF k > Len(service) THEN ~last_was_dash
    ELSE LET c == service[k] IN
         IF IsAlphanumeric(c) /\ ~IsUppercase(c)
         THEN ServiceScan(service, k + 1, FALSE)
         ELSE IF c = "-"
         THEN IF last_was_dash THEN FALSE
              ELSE ServiceScan(service, k + 1, TRUE)
         ELSE FALSE

validate_service(service) ==
    IF service = <<>> THEN Err("InvalidService", service)
    ELSE IF ServiceScan(service, 1, TRUE) THEN Ok
    ELSE Err("InvalidService", service)

(***************************************************************************)
(* utils.rs: validate_account_id.  The length is the byte length and the   *)
(* digit test is made on bytes; a byte of a multi-byte character is never  *)
(* an ASCII digit.                                                         *)
(***************************************************************************)
AccountIdLen == 12

StrAws == <<"a", "w", "s">>


\* validate_account_id with the length test `>` in place of `!=`.
validate_account_id_at_most(account_id) ==
    IF account_id # StrAws
    THEN IF ByteLen(account_id) > AccountIdLen
         THEN Err("InvalidAccountId", account_id)
         ELSE IF \E k \in 1..Len(account_id) : ~IsAsciiDigit(account_id[k])
         THEN Err("InvalidAccountId", account_id)
         ELSE Ok
    ELSE Ok

validate_account_id(account_id) ==
    IF account_id # StrAws
    THEN IF ByteLen(account_id) # AccountIdLen
         THEN Err("InvalidAccountId", account_id)
         ELSE IF \E k \in 1..Len(account_id) : ~IsAsciiDigit(account_id[k])
         THEN Err("InvalidAccountId", account_id)
         ELSE Ok
    ELSE Ok

(***************************************************************************)
(* utils.rs: validate_region, the RegionParseState x RegionParseSection    *)
(* scanner.  RegionStep is one iteration of the loop; "Reject" stands for  *)
(* the early return of Err.                                                *)
(***************************************************************************)
StrLocal == <<"l", "o", "c", "a", "l">>

\* The scanner without the section test: a '-' after a digit always opens
\* another suffix.
RegionStep_any_suffix(state, section, c) ==
    IF c = "-"
    THEN CASE state \in {"Start", "LastWasDash"} -> <<"Reject", section>>
           [] state = "LastWasAlpha" -> <<"LastWasDash", section>>
           [] state = "LastWasDigit" -> <<"LastWasDash", "LocalRegion">>
    ELSE IF IsAlphabetic(c) /\ ~IsUppercase(c)
    THEN IF state \in {"Start", "LastWasDash", "LastWasAlpha"}
         THEN <<"LastWasAlpha", section>>
         ELSE <<"Reject", section>>
    ELSE IF IsAsciiDigit(c)
    THEN IF state \in {"LastWasDash", "LastWasDigit"}
         THEN <<"LastWasDigit", section>>
         ELSE <<"Reject", section>>
    ELSE <<"Reject", section>>

RegionStep(state, section, c) ==
    IF c = "-"
    THEN CASE state \in {"Start", "LastWasDash"} -> <<"Reject", section>>
           [] state = "LastWasAlpha" -> <<"LastWasDash", section>>
           [] state = "LastWasDigit" ->
                IF section = "Region" THEN <<"LastWasDash", "LocalRegion">>
                ELSE <<"Reject", section>>
    ELSE IF IsAlphabetic(c) /\ ~IsUppercase(c)
    THEN IF state \in {"Start", "LastWasDash", "LastWasAlpha"}
         THEN <<"LastWasAlpha", section>>
         ELSE <<"Reject", section>>
    ELSE IF IsAsciiDigit(c)
    THEN IF state \in {"LastWasDash", "LastWasDigit"}
         THEN <<"LastWasDigit", section>>
         ELSE <<"Reject", section>>
    ELSE <<"Reject", section>>

RECURSIVE RegionScan(_, _, _, _)
RegionScan(region, k, state, section) ==
    IF k > Len(region) THEN <<state, section>>
    ELSE LET n == RegionStep(state, section, region[k]) IN
         IF n[1] = "Reject" THEN n
         ELSE RegionScan(region, k + 1, n[1], n[2])

validate_region(region) ==
    IF region = StrLocal THEN Ok
    ELSE IF RegionScan(region, 1, "Start", "Region")[1] = "LastWasDigit" THEN Ok
    ELSE Err("InvalidRegion", region)

(***************************************************************************)
(* Inputs of the validators.                                               *)
(***************************************************************************)
Strings(S, n) == UNION {[1..k -> S] : k \in 0..n}

Rep(c, n) == [i \in 1..n |-> c]

ValChars == {"a", "U+00E9", "U+0663", "A", "1", "-", ":"}

PadChars == {"a", "U+00E9", "1"}

RegionChars == {"a", "1", "-"}

OptChar == {<<>>} \cup {<<c>> : c \in ValChars}

PaddedStrings ==
    {pre \o Rep(c, n) \o post :
        pre \in OptChar, c \in PadChars, n \in 0..MaxPad, post \in OptChar}

NamedStrings ==
    {StrLocal, StrAws,
     <<"l", "o", "c", "a">>, StrLocal \o <<"l">>, StrLocal \o <<"-", "1">>,
     <<"a", "w">>, StrAws \o <<"s">>, <<"A", "w", "s">>,
     <<"U+4E2D", "-", "1">>, <<"U+1F980">>,
     <<"u", "s", "-", "e", "a", "s", "t", "-", "1", "-", "b", "o", "s", "-", "1",
       "-", "l", "a", "x", "-", "1">>}

ValidatorInputs ==
    Strings(ValChars, MaxShort) \cup PaddedStrings
        \cup Strings(RegionChars, MaxRegionLen) \cup NamedStrings

(***************************************************************************)
(* The validators as operations: each is applied once to the drawn input.  *)
(***************************************************************************)
InitValidate ==
    /\ pc = "ready"
    /\ in \in ValidatorInputs
    /\ obj = None
    /\ txt = <<>>
    /\ out = None

ValidatePartition ==
    /\ pc = "ready"
    /\ pc' = "validate_partition"
    /\ out' = validate_partition(in)
    /\ UNCHANGED <<in, obj, txt>>

ValidateService ==
    /\ pc = "ready"
    /\ pc' = "validate_service"
    /\ out' = validate_service(in)
    /\ UNCHANGED <<in, obj, txt>>

ValidateRegion ==
    /\ pc = "ready"
    /\ pc' = "validate_region"
    /\ out' = validate_region(in)
    /\ UNCHANGED <<in, obj, txt>>

ValidateAccountId ==
    /\ pc = "ready"
    /\ pc' = "validate_account_id"
    /\ out' = validate_account_id(in)
    /\ UNCHANGED <<in, obj, txt>>

NextValidate ==
    \/ ValidatePartition
    \/ ValidateService
    \/ ValidateRegion
    \/ ValidateAccountId

SpecValidate == InitValidate /\ [][NextValidate]_vars

(***************************************************************************)
(* arn.rs: Arn, its constructor, parser and formatter.                     *)
(***************************************************************************)
Colon == ":"

StrArn == <<"a", "r", "n">>

ArnParts == 6

\* Position of the first ':' of s, or 0.
FirstColon(s) ==
    IF \E k \in 1..Len(s) : s[k] = Colon
    THEN CHOOSE k \in 1..Len(s) :
            s[k] = Colon /\ \A j \in 1..(k - 1) : s[j] # Colon
    ELSE 0

\* str::splitn(n, ':'): at most n items, the last one holding the remainder.
RECURSIVE SplitN(_, _)
SplitN(s, n) ==
    IF n = 0 THEN <<>>
    ELSE IF n = 1 \/ FirstColon(s) = 0 THEN <<s>>
    ELSE <<SubSeq(s, 1, FirstColon(s) - 1)>>
            \o SplitN(SubSeq(s, FirstColon(s) + 1, Len(s)), n - 1)


\* Arn::new without the two is_empty() guards.
Arn_new_always_validates(partition, service, region, account_id, resource) ==
    IF ~validate_partition(partition).ok THEN validate_partition(partition)
    ELSE IF ~validate_service(service).ok THEN validate_service(service)
    ELSE IF ~validate_region(region).ok THEN validate_region(region)
    ELSE IF ~validate_account_id(account_id).ok THEN validate_account_id(account_id)
    ELSE OkVal([partition |-> partition, service |-> service, region |-> region,
                account_id |-> account_id, resource |-> resource])

Arn_new(partition, service, region, account_id, resource) ==
    IF ~validate_partition(partition).ok THEN validate_partition(partition)
    ELSE IF ~validate_service(service).ok THEN validate_service(service)
    ELSE IF region # <<>> /\ ~validate_region(region).ok
    THEN validate_region(region)
    ELSE IF account_id # <<>> /\ ~validate_account_id(account_id).ok
    THEN validate_account_id(account_id)
    ELSE OkVal([partition |-> partition, service |-> service, region |-> region,
                account_id |-> account_id, resource |-> resource])


\* Arn::from_str with split(':') in place of splitn(6, ':').
Arn_from_str_split(s) ==
    LET parts == SplitN(s, Len(s) + 1) IN
    IF Len(parts) # ArnParts THEN Err("InvalidArn", s)
    ELSE IF parts[1] # StrArn THEN Err("InvalidScheme", parts[1])
    ELSE Arn_new(parts[2], parts[3], parts[4], parts[5], parts[6])

Arn_from_str(s) ==
    LET parts == SplitN(s, ArnParts) IN
    IF Len(parts) # ArnParts THEN Err("InvalidArn", s)
    ELSE IF parts[1] # StrArn THEN Err("InvalidScheme", parts[1])
    ELSE Arn_new(parts[2], parts[3], parts[4], parts[5], parts[6])

Arn_to_string(arn) ==
    StrArn \o <<Colon>> \o arn.partition \o <<Colon>> \o arn.service
        \o <<Colon>> \o arn.region \o <<Colon>> \o arn.account_id
        \o <<Colon>> \o arn.resource

(***************************************************************************)
(* arn.rs: ArnSegmentPattern.  The glob source is rewritten into the text  *)
(* of a regular expression, which Regex::new compiles; Regex_new and       *)
(* Regex_is_match give the regex crate's reading of that text: '.' is any  *)
(* character except the line feed, '^' and '$' are the two ends of the     *)
(* haystack, "\c" is the literal c.                                        *)
(***************************************************************************)
Backslash == "\\"

LineFeed == "\n"

IsMetaCharacter(c) ==
    c \in {Backslash, ".", "+", "*", "?", "(", ")", "|", "[", "]", "{", "}",
           "^", "$", "#", "&", "-", "~"}

escape_into(c) == IF IsMetaCharacter(c) THEN <<Backslash, c>> ELSE <<c>>

\* The loop of ArnSegmentPattern::new from character k on; st holds the
\* three mutable locals.
RECURSIVE SegmentScan(_, _, _)
SegmentScan(s, k, st) ==
    IF k > Len(s) THEN st
    ELSE LET c == s[k] IN
         IF c = "*"
         THEN SegmentScan(s, k + 1,
                  [st EXCEPT !.wildcard_seen = TRUE,
                             !.regex_pattern = @ \o <<".", "*">>])
         ELSE IF c = "?"
         THEN SegmentScan(s, k + 1,
                  [st EXCEPT !.must_use_regex = TRUE,
                             !.regex_pattern = @ \o <<".">>])
         ELSE SegmentScan(s, k + 1,
                  [regex_pattern |-> st.regex_pattern \o escape_into(c),
                   must_use_regex |-> st.must_use_regex \/ st.wildcard_seen,
                   wildcard_seen |-> FALSE])

\* Regex::new on the texts the scan can build: a sequence of atoms.
RECURSIVE Regex_new(_)
Regex_new(text) ==
    IF text = <<>> THEN <<>>
    ELSE LET c == Head(text) IN
         IF c = "^" THEN <<[t |-> "start"]>> \o Regex_new(Tail(text))
         ELSE IF c = "$" THEN <<[t |-> "end"]>> \o Regex_new(Tail(text))
         ELSE IF c = Backslash
         THEN <<[t |-> "literal", c |-> text[2]]>> \o Regex_new(SubSeq(text, 3, Len(text)))
         ELSE IF c = "."
         THEN IF Len(text) >= 2 /\ text[2] = "*"
              THEN <<[t |-> "dotstar"]>> \o Regex_new(SubSeq(text, 3, Len(text)))
              ELSE <<[t |-> "dot"]>> \o Regex_new(Tail(text))
         ELSE <<[t |-> "literal", c |-> c]>> \o Regex_new(Tail(text))

RECURSIVE RegexMatchAt(_, _, _, _)
RegexMatchAt(regex, i, segment, pos) ==
    IF i > Len(regex) THEN TRUE
    ELSE LET a == regex[i] IN
         CASE a.t = "start" -> pos = 1 /\ RegexMatchAt(regex, i + 1, segment, pos)
           [] a.t = "end" ->
                pos = Len(segment) + 1 /\ RegexMatchAt(regex, i + 1, segment, pos)
           [] a.t = "literal" ->
                /\ pos <= Len(segment)
                /\ segment[pos] = a.c
                /\ RegexMatchAt(regex, i + 1, segment, pos + 1)
           [] a.t = "dot" ->
                /\ pos <= Len(segment)
                /\ segment[pos] # LineFeed
                /\ RegexMatchAt(regex, i + 1, segment, pos + 1)
           [] a.t = "dotstar" ->
                \/ RegexMatchAt(regex, i + 1, segment, pos)
                \/ /\ pos <= Len(segment)
                   /\ segment[pos] # LineFeed
                   /\ RegexMatchAt(regex, i, segment, pos + 1)

Regex_is_match(regex, segment) ==
    \E start \in 1..(Len(segment) + 1) : RegexMatchAt(regex, 1, segment, start)

ArnSegmentPattern_new(s) ==
    IF s = <<>> THEN [variant |-> "Empty"]
    ELSE IF s = <<"*">> THEN [variant |-> "Any"]
    ELSE LET st == SegmentScan(s, 1, [regex_pattern |-> <<"^">>,
                                      must_use_regex |-> FALSE,
                                      wildcard_seen |-> FALSE]) IN
         IF st.must_use_regex
         THEN [variant |-> "Regex", orig |-> s,
               regex |-> Regex_new(st.regex_pattern \o <<"$">>)]
         ELSE IF st.wildcard_seen
         THEN [variant |-> "StartsWith", value |-> SubSeq(s, 1, Len(s) - 1)]
         ELSE [variant |-> "Exact", value |-> s]

starts_with(segment, prefix) ==
    Len(prefix) <= Len(segment) /\ SubSeq(segment, 1, Len(prefix)) = prefix

\* The match with an Empty pattern admitting every segment.
ArnSegmentPattern_matches_empty_any(self, segment) ==
    CASE self.variant = "Empty" -> TRUE
      [] self.variant = "Any" -> TRUE
      [] self.variant = "Exact" -> segment = self.value
      [] self.variant = "StartsWith" -> starts_with(segment, self.value)
      [] self.variant = "Regex" -> Regex_is_match(self.regex, segment)

ArnSegmentPattern_matches(self, segment) ==
    CASE self.variant = "Empty" -> segment = <<>>
      [] self.variant = "Any" -> TRUE
      [] self.variant = "Exact" -> segment = self.value
      [] self.variant = "StartsWith" -> starts_with(segment, self.value)
      [] self.variant = "Regex" -> Regex_is_match(self.regex, segment)

(***************************************************************************)
(* arn.rs: ArnPattern.                                                     *)
(***************************************************************************)
ArnPattern_new(partition, service, region, account_id, resource) ==
    [partition |-> ArnSegmentPattern_new(partition),
     service |-> ArnSegmentPattern_new(service),
     region |-> ArnSegmentPattern_new(region),
     account_id |-> ArnSegmentPattern_new(account_id),
     resource |-> ArnSegmentPattern_new(resource)]


\* ArnPattern::matches with the account_id conjunct left out.
ArnPattern_matches_no_account(self, arn) ==
    /\ ArnSegmentPattern_matches(self.partition, arn.partition)
    /\ ArnSegmentPattern_matches(self.service, arn.service)
    /\ ArnSegmentPattern_matches(self.region, arn.region)
    /\ ArnSegmentPattern_matches(self.resource, arn.resource)

ArnPattern_matches(self, arn) ==
    /\ ArnSegmentPattern_matches(self.partition, arn.partition)
    /\ ArnSegmentPattern_matches(self.service, arn.service)
    /\ ArnSegmentPattern_matches(self.region, arn.region)
    /\ ArnSegmentPattern_matches(self.account_id, arn.account_id)
    /\ ArnSegmentPattern_matches(self.resource, arn.resource)


\* ArnPattern::from_str with the scheme test made before the field count.
ArnPattern_from_str_scheme_first(s) ==
    LET parts == SplitN(s, ArnParts) IN
    IF parts[1] # StrArn THEN Err("InvalidScheme", parts[1])
    ELSE IF Len(parts) # ArnParts THEN Err("InvalidArn", s)
    ELSE OkVal(ArnPattern_new(parts[2], parts[3], parts[4], parts[5], parts[6]))

ArnPattern_from_str(s) ==
    LET parts == SplitN(s, ArnParts) IN
    IF Len(parts) # ArnParts THEN Err("InvalidArn", s)
    ELSE IF parts[1] # StrArn THEN Err("InvalidScheme", parts[1])
    ELSE OkVal(ArnPattern_new(parts[2], parts[3], parts[4], parts[5], parts[6]))

(***************************************************************************)
(* Compiling one segment pattern and matching one segment against it.      *)
(***************************************************************************)
PatChars == {"a", ".", "*", "?"}

SegChars == {"a", ".", "*", LineFeed}

InitGlob ==
    /\ pc = "glob_args"
    /\ in \in [pat : Strings(PatChars, MaxGlobLen), seg : Strings(SegChars, MaxGlobLen)]
    /\ obj = None
    /\ txt = <<>>
    /\ out = None

SegmentNew ==
    /\ pc = "glob_args"
    /\ pc' = "compiled"
    /\ obj' = ArnSegmentPattern_new(in.pat)
    /\ UNCHANGED <<in, txt, out>>

SegmentMatches ==
    /\ pc = "compiled"
    /\ pc' = "segment_matched"
    /\ out' = OkVal(ArnSegmentPattern_matches(obj, in.seg))
    /\ UNCHANGED <<in, obj, txt>>

NextGlob == SegmentNew \/ SegmentMatches

SpecGlob == InitGlob /\ [][NextGlob]_vars

(***************************************************************************)
(* Arn and ArnPattern as operations.  A behaviour either builds an Arn     *)
(* from five segments, formats it and parses the text back; or parses a    *)
(* raw text as an Arn or as an ArnPattern; or builds an ArnPattern (from   *)
(* its text or from its five sources) and matches an Arn against it.       *)
(***************************************************************************)
Acct1 == Rep("1", AccountIdLen)

Acct2 == Rep("1", AccountIdLen - 1) \o <<"2">>

Segs(p, s, r, a, x) ==
    [partition |-> p, service |-> s, region |-> r, account_id |-> a, resource |-> x]

SamplePartitions == {StrAws, <<>>, <<"a", "-">>}

SampleServices == {<<"s", "3">>, <<>>, <<"S">>}

SampleRegions == {<<>>, <<"a", "-", "1">>, <<"a">>}

SampleAccounts == {<<>>, StrAws, Acct1, <<"1">>}

SampleResources == {<<>>, <<"r">>, <<"r", ":", "x">>, <<":">>, <<"r", ":">>}

ArnArgs ==
    [partition : SamplePartitions, service : SampleServices, region : SampleRegions,
     account_id : SampleAccounts, resource : SampleResources]

SampleSchemes == {StrArn, <<"a", "r">>, <<>>, <<"A", "r", "n">>}

Fields(scheme, a) ==
    <<scheme, a.partition, a.service, a.region, a.account_id, a.resource>>

RECURSIVE Join(_)
Join(fields) ==
    IF Len(fields) = 1 THEN fields[1]
    ELSE fields[1] \o <<Colon>> \o Join(Tail(fields))

\* The first n fields of a six-field text, joined by ':'.
RawTexts ==
    {Join(SubSeq(Fields(scheme, a), 1, n)) :
        scheme \in SampleSchemes, a \in ArnArgs, n \in 1..ArnParts}

PatPartitions == {StrAws, <<"*">>, <<"a", "*">>}

PatServices == {<<"s", "3">>, <<"s", "?">>}

PatRegions == {<<>>, <<"*">>, <<"a", "-", "*">>}

PatAccounts == {<<>>, <<"*">>, Acct1}

PatResources == {<<"*">>, <<"r">>, <<"r", ":", "*">>, <<"*", ":", "x">>}

PatternArgs ==
    [partition : PatPartitions, service : PatServices, region : PatRegions,
     account_id : PatAccounts, resource : PatResources]

MatchedArns ==
    [partition : {StrAws, <<"a", "b">>}, service : {<<"s", "3">>, <<"e", "c">>},
     region : {<<>>, <<"a", "-", "1">>}, account_id : {<<>>, Acct1, Acct2},
     resource : {<<"r">>, <<"r", ":", "x">>, <<"x", ":", "r">>}]

InitArn ==
    /\ obj = None
    /\ out = None
    /\ \/ pc = "args" /\ in \in ArnArgs /\ txt = <<>>
       \/ pc = "text" /\ in = None /\ txt \in RawTexts
       \/ /\ pc = "pattern_args"
          /\ in \in [pat : PatternArgs, arn : MatchedArns]
          /\ txt = Join(Fields(StrArn, in.pat))

ArnNew ==
    /\ pc = "args"
    /\ pc' = "constructed"
    /\ obj' = Arn_new(in.partition, in.service, in.region, in.account_id, in.resource)
    /\ UNCHANGED <<in, txt, out>>

ArnToString ==
    /\ pc = "constructed"
    /\ obj.ok
    /\ pc' = "formatted"
    /\ txt' = Arn_to_string(obj.val)
    /\ UNCHANGED <<in, obj, out>>

ArnFromStr ==
    /\ pc \in {"formatted", "text"}
    /\ pc' = "parsed"
    /\ out' = Arn_from_str(txt)
    /\ UNCHANGED <<in, obj, txt>>

ArnPatternFromStr ==
    /\ pc \in {"text", "pattern_args"}
    /\ pc' = IF pc = "text" THEN "pattern_parsed" ELSE "pattern"
    /\ obj' = ArnPattern_from_str(txt)
    /\ UNCHANGED <<in, txt, out>>

ArnPatternNew ==
    /\ pc = "pattern_args"
    /\ pc' = "pattern"
    /\ obj' = OkVal(ArnPattern_new(in.pat.partition, in.pat.service, in.pat.region,
                                   in.pat.account_id, in.pat.resource))
    /\ UNCHANGED <<in, txt, out>>

ArnPatternMatches ==
    /\ pc = "pattern"
    /\ obj.ok
    /\ LET arn == Arn_new(in.arn.partition, in.arn.service, in.arn.region,
                          in.arn.account_id, in.arn.resource) IN
         /\ arn.ok
         /\ out' = OkVal(ArnPattern_matches(obj.val, arn.val))
    /\ pc' = "matched"
    /\ UNCHANGED <<in, obj, txt>>

NextArn ==
    \/ ArnNew
    \/ ArnToString
    \/ ArnFromStr
    \/ ArnPatternFromStr
    \/ ArnPatternNew
    \/ ArnPatternMatches

InitArnAll == InitArn \/ InitValidate

NextArnAll == NextArn \/ NextValidate

SpecArn == InitArnAll /\ [][NextArnAll]_vars

(***************************************************************************)
(* Reference grammars of the validators, stated declaratively (no scan).   *)
(***************************************************************************)
IsLowerAlpha(c) == IsAlphabetic(c) /\ ~IsUppercase(c)

\* No '-' in first or last position and no two consecutive '-'.
HyphenRule(s) ==
    /\ s # <<>>
    /\ s[1] # "-"
    /\ s[Len(s)] # "-"
    /\ \A k \in 1..(Len(s) - 1) : ~(s[k] = "-" /\ s[k + 1] = "-")

\* alpha(-alpha)*-digits
IsRegionName(s) ==
    \E d \in 2..(Len(s) - 1) :
        /\ s[d] = "-"
        /\ \A k \in (d + 1)..Len(s) : IsAsciiDigit(s[k])
        /\ HyphenRule(SubSeq(s, 1, d - 1))
        /\ \A k \in 1..(d - 1) : IsLowerAlpha(s[k]) \/ s[k] = "-"

\* "local", or alpha(-alpha)*-digits with at most one suffix of the same shape
RegionGrammar(s) ==
    \/ s = StrLocal
    \/ IsRegionName(s)
    \/ \E m \in 1..Len(s) :
          /\ s[m] = "-"
          /\ IsRegionName(SubSeq(s, 1, m - 1))
          /\ IsRegionName(SubSeq(s, m + 1, Len(s)))

PartitionChar(c) == IsLowerAlpha(c) \/ IsAsciiDigit(c) \/ c = "-"

ServiceChar(c) == (IsAlphanumeric(c) /\ ~IsUppercase(c)) \/ c = "-"

IsTwelveDigits(s) ==
    Len(s) = AccountIdLen /\ \A k \in 1..Len(s) : IsAsciiDigit(s[k])

\* C3: validate_region accepts exactly "local" and the strings of the shape
\* alpha(-alpha)*-digits[-alpha(-alpha)*-digits]; every other string is
\* rejected with InvalidRegion carrying the input.
C3_RegionGrammar ==
    pc = "validate_region" =>
        /\ out.ok <=> RegionGrammar(in)
        /\ ~out.ok => out = Err("InvalidRegion", in)

\* C4: a partition of exactly 32 allowed characters is accepted and every
\* partition of 33 or more characters is rejected with InvalidPartition,
\* the length being counted in characters.
C4_PartitionLength ==
    pc = "validate_partition" =>
        /\ Len(in) > PartitionMaxLen => out = Err("InvalidPartition", in)
        /\ (Len(in) = PartitionMaxLen /\ HyphenRule(in)
              /\ \A k \in 1..Len(in) : PartitionChar(in[k])) => out.ok

\* C5: validate_partition and validate_service accept exactly the non-empty
\* strings of allowed characters that obey the hyphen rule (for partitions,
\* of at most 32 characters).
C5_HyphenAndCharset ==
    /\ pc = "validate_partition" =>
          (out.ok <=> /\ HyphenRule(in)
                      /\ \A k \in 1..Len(in) : PartitionChar(in[k])
                      /\ Len(in) <= PartitionMaxLen)
    /\ pc = "validate_service" =>
          (out.ok <=> /\ HyphenRule(in)
                      /\ \A k \in 1..Len(in) : ServiceChar(in[k]))

\* C6: validate_account_id accepts exactly "aws" and the strings of exactly
\* 12 ASCII digits; every other string is rejected with InvalidAccountId
\* carrying the input.
C6_AccountId ==
    pc = "validate_account_id" =>
        /\ out.ok <=> (in = StrAws \/ IsTwelveDigits(in))
        /\ ~out.ok => out = Err("InvalidAccountId", in)

C6_Witness ==
    /\ pc = "validate_account_id"
    /\ in = Rep("1", AccountIdLen)
    /\ out.ok

(***************************************************************************)
(* Reference semantics of a glob source: '*' any run, '?' any one          *)
(* character, anything else itself, the whole segment consumed.            *)
(***************************************************************************)
RECURSIVE GlobRef(_, _)
GlobRef(p, s) ==
    IF p = <<>> THEN s = <<>>
    ELSE IF Head(p) = "*"
    THEN GlobRef(Tail(p), s) \/ (s # <<>> /\ GlobRef(p, Tail(s)))
    ELSE IF Head(p) = "?"
    THEN s # <<>> /\ GlobRef(Tail(p), Tail(s))
    ELSE s # <<>> /\ Head(s) = Head(p) /\ GlobRef(Tail(p), Tail(s))

IsWildcard(c) == c \in {"*", "?"}

HasWildcard(s) == \E k \in 1..Len(s) : IsWildcard(s[k])

\* The only wildcard of s is one trailing '*' (and s is not "*" itself).
SingleTrailingStar(s) ==
    /\ Len(s) >= 2
    /\ s[Len(s)] = "*"
    /\ ~HasWildcard(SubSeq(s, 1, Len(s) - 1))

\* C8: the compiled variant is Empty iff the source is empty, Any iff it is
\* "*", Exact(s) iff it holds no wildcard, StartsWith iff its only wildcard
\* is a single trailing '*' (the stored prefix then holds no wildcard), and
\* Regex in every other case.
C8_GlobClassification ==
    pc = "compiled" =>
        /\ obj.variant = "Empty" <=> in.pat = <<>>
        /\ obj.variant = "Any" <=> in.pat = <<"*">>
        /\ obj.variant = "Exact" <=> (in.pat # <<>> /\ ~HasWildcard(in.pat))
        /\ obj.variant = "Exact" => obj.value = in.pat
        /\ obj.variant = "StartsWith" <=> SingleTrailingStar(in.pat)
        /\ obj.variant = "StartsWith" =>
              /\ obj.value = SubSeq(in.pat, 1, Len(in.pat) - 1)
              /\ ~HasWildcard(obj.value)
        /\ obj.variant = "Regex" <=>
              /\ in.pat # <<>>
              /\ in.pat # <<"*">>
              /\ HasWildcard(in.pat)
              /\ ~SingleTrailingStar(in.pat)

\* C9: whatever variant was compiled, matches(segment) is true exactly when
\* the segment matches the source under the reference glob semantics.
C9_GlobSemantics ==
    pc = "segment_matched" => (out.val <=> GlobRef(in.pat, in.seg))

(***************************************************************************)
(* The wire syntax read without the parser: the number of ':'-delimited    *)
(* fields of a text and its scheme word.                                   *)
(***************************************************************************)
FieldCount(t) == Cardinality({k \in 1..Len(t) : t[k] = Colon}) + 1

SchemeOf(t) ==
    SubSeq(t, 1, CHOOSE n \in 0..Len(t) :
                    /\ \A k \in 1..n : t[k] # Colon
                    /\ n = Len(t) \/ t[n + 1] = Colon)

SegmentNames == {"partition", "service", "region", "account_id", "resource"}

\* C1: for every 5-tuple Arn::new accepts, parsing the formatted Arn
\* succeeds and gives an equal Arn whose five accessors return the original
\* segments (the resource, colons included, is captured whole; no segment a
\* validator accepts holds the ':' delimiter).
C1_RoundTrip ==
    /\ (pc \in {"validate_partition", "validate_service", "validate_region",
                "validate_account_id"} /\ out.ok) =>
          \A k \in 1..Len(in) : in[k] # Colon
    /\ (pc \in {"constructed", "formatted"} /\ obj.ok) => obj.val = in
    /\ (pc = "parsed" /\ obj # None) =>
          /\ out.ok
          /\ out.val = obj.val
          /\ \A f \in SegmentNames : out.val[f] = in[f]

C1_Witness ==
    /\ pc = "parsed"
    /\ obj # None
    /\ in.resource = <<"r", ":", "x">>
    /\ in.region = <<>>
    /\ in.account_id = <<>>
    /\ out = OkVal(in)

FromStrContract(t, r) ==
    /\ FieldCount(t) < ArnParts => r = Err("InvalidArn", t)
    /\ (FieldCount(t) >= ArnParts /\ SchemeOf(t) # StrArn) =>
          r = Err("InvalidScheme", SchemeOf(t))
    /\ (FieldCount(t) >= ArnParts /\ SchemeOf(t) = StrArn) =>
          r.ok \/ r.err \notin {"InvalidArn", "InvalidScheme"}

C7_Emptiness ==
    /\ pc = "constructed" =>
          /\ (in.partition = <<>> \/ in.service = <<>>) => ~obj.ok
          /\ in.partition = <<>> => obj = Err("InvalidPartition", <<>>)
          /\ in.region = <<>> => (obj.ok \/ obj.err # "InvalidRegion")
          /\ in.account_id = <<>> => (obj.ok \/ obj.err # "InvalidAccountId")
          /\ (in.partition = StrAws /\ in.service = <<"s", "3">>
                /\ in.region = <<>> /\ in.account_id = <<>>) => obj.ok
    /\ (pc = "parsed" /\ FieldCount(txt) >= ArnParts /\ SchemeOf(txt) = StrArn) =>
          LET f == SplitN(txt, ArnParts) IN
          /\ f[4] = <<>> => (out.ok \/ out.err # "InvalidRegion")
          /\ f[5] = <<>> => (out.ok \/ out.err # "InvalidAccountId")
          /\ (f[2] = StrAws /\ f[3] = <<"s", "3">> /\ f[4] = <<>> /\ f[5] = <<>>)
                => out.ok
    /\ (pc = "validate_region" /\ in = <<>>) => out = Err("InvalidRegion", <<>>)
    /\ (pc = "validate_account_id" /\ in = <<>>) =>
          out = Err("InvalidAccountId", <<>>)

C7_Witness ==
    /\ pc = "constructed"
    /\ in.region = <<>>
    /\ in.account_id = <<>>
    /\ obj.ok
    /\ ~validate_region(in.region).ok
    /\ ~validate_account_id(in.account_id).ok

SegmentAccepts(src, segment) ==
    ArnSegmentPattern_matches(ArnSegmentPattern_new(src), segment)

\* C10: ArnPattern::matches(arn) is the conjunction of the five per-segment
\* matches, each pattern segment tested against the corresponding Arn
\* segment only; one rejecting segment makes the whole match false.
C10_PatternConjunction ==
    pc = "matched" =>
        /\ out.val <=> \A f \in SegmentNames : SegmentAccepts(in.pat[f], in.arn[f])
        /\ (\E f \in SegmentNames : ~SegmentAccepts(in.pat[f], in.arn[f]))
              => ~out.val

C10_Witness ==
    /\ pc = "matched"
    /\ ~out.val
    /\ in.pat.account_id = Acct1
    /\ in.arn.account_id = Acct2
    /\ in.pat.region = <<"a", "-", "*">>
    /\ in.pat.resource = <<"r", ":", "*">>
    /\ \A f \in SegmentNames \ {"account_id"} : SegmentAccepts(in.pat[f], in.arn[f])

(***************************************************************************)
(* arn.rs: impl PartialEq / impl Hash for ArnSegmentPattern.  The compiled *)
(* Regex is the second field of the Regex variant and is never read.       *)
(***************************************************************************)
\* Equality as #[derive(PartialEq)] would give it, were Regex comparable:
\* every field compared.
ArnSegmentPattern_eq_derived(self, other) == self = other

ArnSegmentPattern_eq(self, other) ==
    CASE self.variant = "Empty" /\ other.variant = "Empty" -> TRUE
      [] self.variant = "Any" /\ other.variant = "Any" -> TRUE
      [] self.variant = "Exact" /\ other.variant = "Exact" ->
            self.value = other.value
      [] self.variant = "StartsWith" /\ other.variant = "StartsWith" ->
            self.value = other.value
      [] self.variant = "Regex" /\ other.variant = "Regex" ->
            self.orig = other.orig
      [] OTHER -> FALSE

\* What hash() writes to the hasher: the tag byte, then the string.
ArnSegmentPattern_hash(self) ==
    CASE self.variant = "Empty" -> <<0>>
      [] self.variant = "Any" -> <<1>>
      [] self.variant = "Exact" -> <<2, self.value>>
      [] self.variant = "StartsWith" -> <<3, self.value>>
      [] self.variant = "Regex" -> <<4, self.orig>>

\* A Regex variant written out by hand around another matcher for the same
\* source, as the test does: Regex("us-*-1", Regex::new("us-.*-1")), the
\* expression without its two anchors.
Unanchored(regex) ==
    SelectSeq(regex, LAMBDA a : a.t \notin {"start", "end"})

InitGlobEq ==
    /\ pc = "eq_args"
    /\ in \in [a : Strings(PatChars, MaxGlobLen), b : Strings(PatChars, MaxGlobLen)]
    /\ obj = None
    /\ txt = <<>>
    /\ out = None

SegmentPairNew ==
    /\ pc = "eq_args"
    /\ pc' = "pair"
    /\ obj' = [a |-> ArnSegmentPattern_new(in.a), b |-> ArnSegmentPattern_new(in.b)]
    /\ UNCHANGED <<in, txt, out>>

SegmentPairLiteral ==
    /\ pc = "eq_args"
    /\ ArnSegmentPattern_new(in.b).variant = "Regex"
    /\ pc' = "pair_literal"
    /\ obj' = [a |-> ArnSegmentPattern_new(in.a),
               b |-> [variant |-> "Regex", orig |-> in.b,
                      regex |-> Unanchored(ArnSegmentPattern_new(in.b).regex)]]
    /\ UNCHANGED <<in, txt, out>>

SegmentEq ==
    /\ pc \in {"pair", "pair_literal"}
    /\ pc' = IF pc = "pair" THEN "pair_compared" ELSE "pair_literal_compared"
    /\ out' = OkVal([eq |-> ArnSegmentPattern_eq(obj.a, obj.b),
                     hash_a |-> ArnSegmentPattern_hash(obj.a),
                     hash_b |-> ArnSegmentPattern_hash(obj.b)])
    /\ UNCHANGED <<in, obj, txt>>

NextGlobEq == SegmentPairNew \/ SegmentPairLiteral \/ SegmentEq

SpecGlobEq == InitGlobEq /\ [][NextGlobEq]_vars

\* C11: two segment patterns are equal exactly when their source strings
\* are equal, whatever matcher the Regex variant carries, and equal
\* patterns write the same data to the hasher.
C11_PatternIdentity ==
    pc \in {"pair_compared", "pair_literal_compared"} =>
        /\ out.val.eq <=> in.a = in.b
        /\ out.val.eq => out.val.hash_a = out.val.hash_b

C11_Witness ==
    /\ pc = "pair_literal_compared"
    /\ in.a = in.b
    /\ obj.a.variant = "Regex"
    /\ obj.a.regex # obj.b.regex
    /\ out.val.eq
    /\ out.val.hash_a = out.val.hash_b

(***************************************************************************)
(* The principal crate (src/principal/src): PrincipalError, the name /     *)
(* path / DNS validators, and the identity constructors.                   *)
(***************************************************************************)
Some(v) == [tag |-> "some", val |-> v]

\* A PrincipalError value; CannotConvertToArn carries no string.
PErr(kind, s) == [ok |-> FALSE, perr |-> kind, arg |-> s]

CannotConvertToArn == [ok |-> FALSE, perr |-> "CannotConvertToArn"]

\* From<ArnError> with InvalidResource folded into InvalidArn.
PrincipalError_from_swapped(err) ==
    CASE err.err = "InvalidScheme" -> PErr("InvalidScheme", err.arg)
      [] err.err = "InvalidPartition" -> PErr("InvalidPartition", err.arg)
      [] err.err = "InvalidService" -> PErr("InvalidService", err.arg)
      [] err.err = "InvalidRegion" -> PErr("InvalidRegion", err.arg)
      [] err.err = "InvalidAccountId" -> PErr("InvalidAccountId", err.arg)
      [] err.err = "InvalidResource" -> PErr("InvalidArn", err.arg)
      [] err.err = "InvalidArn" -> PErr("InvalidArn", err.arg)

PrincipalError_from(err) ==
    CASE err.err = "InvalidScheme" -> PErr("InvalidScheme", err.arg)
      [] err.err = "InvalidPartition" -> PErr("InvalidPartition", err.arg)
      [] err.err = "InvalidService" -> PErr("InvalidService", err.arg)
      [] err.err = "InvalidRegion" -> PErr("InvalidRegion", err.arg)
      [] err.err = "InvalidAccountId" -> PErr("InvalidAccountId", err.arg)
      [] err.err = "InvalidResource" -> PErr("InvalidResource", err.arg)
      [] err.err = "InvalidArn" -> PErr("InvalidArn", err.arg)

\* u8::is_ascii_alphanumeric on the bytes of a character: every byte of a
\* non-ASCII character is >= 0x80 and fails it.
IsAsciiAlphanumeric(c) == c \in AsciiLower \cup AsciiUpper \cup AsciiDigit

NameMaxLen == 64

FederatedUserNameMaxLen == 32

NameMinLen == 2

validate_name(name, max_length, map_err) ==
    LET n_len == ByteLen(name) IN
    IF n_len = 0 \/ n_len > max_length THEN PErr(map_err, name)
    ELSE IF \E i \in 1..Len(name) :
                ~(IsAsciiAlphanumeric(name[i]) \/ name[i] \in {",", "-", ".", "=", "@", "_"})
         THEN PErr(map_err, name)
    ELSE Ok

\* The printable ASCII characters 0x21 ('!') to 0x7e ('~') in byte order;
\* "U+0060" stands for the grave accent.
AsciiTable ==
    <<"!", "\"", "#", "$", "%", "&", "'", "(", ")", "*", "+", ",", "-", ".", "/",
      "0", "1", "2", "3", "4", "5", "6", "7", "8", "9", ":", ";", "<", "=", ">", "?",
      "@", "A", "B", "C", "D", "E", "F", "G", "H", "I", "J", "K", "L", "M", "N", "O",
      "P", "Q", "R", "S", "T", "U", "V", "W", "X", "Y", "Z", "[", "\\", "]", "^", "_",
      "U+0060", "a", "b", "c", "d", "e", "f", "g", "h", "i", "j", "k", "l", "m", "n", "o",
      "p", "q", "r", "s", "t", "u", "v", "w", "x", "y", "z", "{", "|", "}", "~">>

\* The code point of a character; UTF-8 byte order is code point order.
CodePoint(c) ==
    CASE c = "U+00E9" -> 233
      [] c = "U+0663" -> 1635
      [] c = "U+4E2D" -> 20013
      [] c = "U+1F980" -> 129408
      [] c = LineFeed -> 10
      [] c = " " -> 32
      [] OTHER -> 32 + (CHOOSE i \in 1..Len(AsciiTable) : AsciiTable[i] = c)

PathMaxLen == 512

validate_path(path) ==
    LET p_len == ByteLen(path) IN
    IF p_len = 0 \/ p_len > PathMaxLen THEN PErr("InvalidPath", path)
    ELSE IF path[1] # "/" \/ path[Len(path)] # "/" THEN PErr("InvalidPath", path)
    ELSE IF \E i \in 1..Len(path) : CodePoint(path[i]) < 33 \/ CodePoint(path[i]) > 126
         THEN PErr("InvalidPath", path)
    ELSE Ok

\* The for loop of validate_dns.  Every return inside the loop gives the
\* same error, and `last` at byte i is the byte before it, so the loop
\* fails exactly when some position fails its test.
DnsScan(name, map_err) ==
    IF \E i \in 1..Len(name) :
          IF name[i] = "-" \/ name[i] = "."
          THEN i = 1 \/ i = Len(name) \/ name[i - 1] = "-" \/ name[i - 1] = "."
          ELSE ~IsAsciiAlphanumeric(name[i])
    THEN PErr(map_err, name)
    ELSE Ok

validate_dns(name, max_length, map_err) ==
    IF name = <<>> \/ ByteLen(name) > max_length THEN PErr(map_err, name)
    ELSE DnsScan(name, map_err)
(***************************************************************************)
(* The identity types and their constructors.                              *)
(***************************************************************************)
\* The constructor without the minimum length of the session name.
AssumedRole_new_no_min(partition, account_id, role_name, session_name) ==
    LET p == validate_partition(partition)
        a == validate_account_id(account_id)
        r == validate_name(role_name, NameMaxLen, "InvalidRoleName")
        s == validate_name(session_name, NameMaxLen, "InvalidSessionName")
    IN  IF ~p.ok THEN PrincipalError_from(p)
        ELSE IF ~a.ok THEN PrincipalError_from(a)
        ELSE IF ~r.ok THEN r
        ELSE IF ~s.ok THEN s
        ELSE OkVal([partition |-> partition, account_id |-> account_id,
                    role_name |-> role_name, session_name |-> session_name])

AssumedRole_new(partition, account_id, role_name, session_name) ==
    LET p == validate_partition(partition)
        a == validate_account_id(account_id)
        r == validate_name(role_name, NameMaxLen, "InvalidRoleName")
        s == validate_name(session_name, NameMaxLen, "InvalidSessionName")
    IN  IF ~p.ok THEN PrincipalError_from(p)
        ELSE IF ~a.ok THEN PrincipalError_from(a)
        ELSE IF ~r.ok THEN r
        ELSE IF ~s.ok THEN s
        ELSE IF ByteLen(session_name) < NameMinLen THEN PErr("InvalidSessionName", session_name)
        ELSE OkVal([partition |-> partition, account_id |-> account_id,
                    role_name |-> role_name, session_name |-> session_name])

CanonicalUserIdLen == 64

CanonicalUser_new(canonical_user_id) ==
    IF ByteLen(canonical_user_id) # CanonicalUserIdLen
    THEN PErr("InvalidCanonicalUserId", canonical_user_id)
    ELSE IF \E i \in 1..Len(canonical_user_id) :
                canonical_user_id[i] \notin AsciiDigit \cup {"a", "b", "c", "d", "e", "f"}
         THEN PErr("InvalidCanonicalUserId", canonical_user_id)
    ELSE OkVal([canonical_user_id |-> canonical_user_id])

FederatedUser_new(partition, account_id, user_name) ==
    LET p == validate_partition(partition)
        a == validate_account_id(account_id)
        u == validate_name(user_name, FederatedUserNameMaxLen, "InvalidFederatedUserName")
    IN  IF ~p.ok THEN PrincipalError_from(p)
        ELSE IF ~a.ok THEN PrincipalError_from(a)
        ELSE IF ~u.ok THEN u
        ELSE IF ByteLen(user_name) < NameMinLen THEN PErr("InvalidFederatedUserName", user_name)
        ELSE OkVal([partition |-> partition, account_id |-> account_id, user_name |-> user_name])

RootUser_new(partition, account_id) ==
    LET p == validate_partition(partition)
        a == validate_account_id(account_id)
    IN  IF ~p.ok THEN PrincipalError_from(p)
        ELSE IF ~a.ok THEN PrincipalError_from(a)
        ELSE OkVal([partition |-> partition, account_id |-> account_id])

ServiceNameMaxLen == 32

DnsSuffixMaxLen == 128

Service_new(service_name, region, dns_suffix) ==
    LET n == validate_dns(service_name, ServiceNameMaxLen, "InvalidService")
        d == validate_dns(dns_suffix, DnsSuffixMaxLen, "InvalidService")
        g == IF region = None THEN Ok ELSE validate_region(region.val)
    IN  IF ~n.ok THEN n
        ELSE IF ~d.ok THEN d
        ELSE IF ~g.ok THEN PrincipalError_from(g)
        ELSE OkVal([service_name |-> service_name, region |-> region, dns_suffix |-> dns_suffix])

\* User::new with the user name validated before the path.
User_new_name_first(partition, account_id, path, user_name) ==
    LET p == validate_partition(partition)
        a == validate_account_id(account_id)
        t == validate_path(path)
        u == validate_name(user_name, NameMaxLen, "InvalidUserName")
    IN  IF ~p.ok THEN PrincipalError_from(p)
        ELSE IF ~a.ok THEN PrincipalError_from(a)
        ELSE IF ~u.ok THEN u
        ELSE IF ~t.ok THEN t
        ELSE OkVal([partition |-> partition, account_id |-> account_id,
                    path |-> path, user_name |-> user_name])

User_new(partition, account_id, path, user_name) ==
    LET p == validate_partition(partition)
        a == validate_account_id(account_id)
        t == validate_path(path)
        u == validate_name(user_name, NameMaxLen, "InvalidUserName")
    IN  IF ~p.ok THEN PrincipalError_from(p)
        ELSE IF ~a.ok THEN PrincipalError_from(a)
        ELSE IF ~t.ok THEN t
        ELSE IF ~u.ok THEN u
        ELSE OkVal([partition |-> partition, account_id |-> account_id,
                    path |-> path, user_name |-> user_name])

(***************************************************************************)
(* From<&T> for Arn: Arn::new(..).unwrap().                                *)
(***************************************************************************)
Panic == [tag |-> "panic"]

Unwrap(r) == IF r.ok THEN r.val ELSE Panic

StrSts == <<"s", "t", "s">>

StrIam == <<"i", "a", "m">>

Slash == "/"

StrAssumedRole == <<"a", "s", "s", "u", "m", "e", "d", "-", "r", "o", "l", "e">>

StrFederatedUser ==
    <<"f", "e", "d", "e", "r", "a", "t", "e", "d", "-", "u", "s", "e", "r">>

StrRoot == <<"r", "o", "o", "t">>

StrUser == <<"u", "s", "e", "r">>

\* The conversion with the session name left out of the resource.
Arn_from_AssumedRole_no_session(role) ==
    Unwrap(Arn_new(role.partition, StrSts, <<>>, role.account_id,
                   StrAssumedRole \o <<Slash>> \o role.role_name \o <<Slash>>))

Arn_from_AssumedRole(role) ==
    Unwrap(Arn_new(role.partition, StrSts, <<>>, role.account_id,
                   StrAssumedRole \o <<Slash>> \o role.role_name \o <<Slash>> \o role.session_name))

Arn_from_FederatedUser(user) ==
    Unwrap(Arn_new(user.partition, StrSts, <<>>, user.account_id,
                   StrFederatedUser \o <<Slash>> \o user.user_name))

Arn_from_RootUser(root_user) ==
    Unwrap(Arn_new(root_user.partition, StrIam, <<>>, root_user.account_id, StrRoot))

\* A conversion of a user that hands Arn::new the path as the region.
Arn_from_User_path_as_region(user) ==
    Unwrap(Arn_new(user.partition, StrIam, user.path, user.account_id,
                   StrUser \o user.path \o user.user_name))

Arn_from_User(user) ==
    Unwrap(Arn_new(user.partition, StrIam, <<>>, user.account_id,
                   StrUser \o user.path \o user.user_name))

\* str::split('/') collected into a Vec.
RECURSIVE SplitSlash(_)
SplitSlash(s) ==
    IF \A i \in 1..Len(s) : s[i] # Slash THEN <<s>>
    ELSE LET k == CHOOSE i \in 1..Len(s) : s[i] = Slash /\ \A j \in 1..(i - 1) : s[j] # Slash
         IN  <<SubSeq(s, 1, k - 1)>> \o SplitSlash(SubSeq(s, k + 1, Len(s)))

AssumedRoleParts == 3

\* The conversion testing the region before the service.
AssumedRole_try_from_region_first(arn) ==
    LET resource_parts == SplitSlash(arn.resource) IN
    IF arn.region # <<>> THEN PErr("InvalidRegion", arn.region)
    ELSE IF arn.service # StrSts THEN PErr("InvalidService", arn.service)
    ELSE IF Len(resource_parts) # AssumedRoleParts \/ resource_parts[1] # StrAssumedRole
         THEN PErr("InvalidResource", arn.resource)
    ELSE AssumedRole_new(arn.partition, arn.account_id, resource_parts[2], resource_parts[3])

AssumedRole_try_from(arn) ==
    LET resource_parts == SplitSlash(arn.resource) IN
    IF arn.service # StrSts THEN PErr("InvalidService", arn.service)
    ELSE IF arn.region # <<>> THEN PErr("InvalidRegion", arn.region)
    ELSE IF Len(resource_parts) # AssumedRoleParts \/ resource_parts[1] # StrAssumedRole
         THEN PErr("InvalidResource", arn.resource)
    ELSE AssumedRole_new(arn.partition, arn.account_id, resource_parts[2], resource_parts[3])

AssumedRole_from_str(arn) ==
    LET parsed_arn == Arn_from_str(arn) IN
    IF ~parsed_arn.ok THEN PrincipalError_from(parsed_arn)
    ELSE AssumedRole_try_from(parsed_arn.val)

(***************************************************************************)
(* principal.rs: PrincipalIdentity with its derived ordering, and the      *)
(* Principal identity set.                                                 *)
(***************************************************************************)
PrincipalIdentity(variant, inner) == [variant |-> variant, inner |-> inner]

\* The discriminant of each variant, in declaration order.
Discriminant(variant) ==
    CASE variant = "AssumedRole" -> 0
      [] variant = "CanonicalUser" -> 1
      [] variant = "FederatedUser" -> 2
      [] variant = "RootUser" -> 3
      [] variant = "Service" -> 4
      [] variant = "User" -> 5

\* Ord for str: lexicographic on bytes.  -1, 0, 1 stand for Less, Equal,
\* Greater.
str_cmp(a, b) ==
    LET n == IF Len(a) < Len(b) THEN Len(a) ELSE Len(b)
        d == {i \in 1..n : a[i] # b[i]}
    IN  IF d = {}
        THEN IF Len(a) < Len(b) THEN -1 ELSE IF Len(a) > Len(b) THEN 1 ELSE 0
        ELSE LET k == CHOOSE i \in d : \A j \in d : i <= j
             IN  IF CodePoint(a[k]) < CodePoint(b[k]) THEN -1 ELSE 1

\* Ord for Option<String>: None is less than every Some.
option_cmp(a, b) ==
    IF a = None /\ b = None THEN 0
    ELSE IF a = None THEN -1
    ELSE IF b = None THEN 1
    ELSE str_cmp(a.val, b.val)

\* The fields of each struct in declaration order, as the derive compares
\* them.
FieldOrder(variant) ==
    CASE variant = "AssumedRole" -> <<"partition", "account_id", "role_name", "session_name">>
      [] variant = "CanonicalUser" -> <<"canonical_user_id">>
      [] variant = "FederatedUser" -> <<"partition", "account_id", "user_name">>
      [] variant = "RootUser" -> <<"partition", "account_id">>
      [] variant = "Service" -> <<"service_name", "region", "dns_suffix">>
      [] variant = "User" -> <<"partition", "account_id", "path", "user_name">>

RECURSIVE fields_cmp(_, _, _)
fields_cmp(a, b, names) ==
    IF names = <<>> THEN 0
    ELSE LET f == Head(names)
             c == IF f = "region" THEN option_cmp(a[f], b[f]) ELSE str_cmp(a[f], b[f])
         IN  IF c # 0 THEN c ELSE fields_cmp(a, b, Tail(names))

PrincipalIdentity_cmp(a, b) ==
    IF Discriminant(a.variant) < Discriminant(b.variant) THEN -1
    ELSE IF Discriminant(a.variant) > Discriminant(b.variant) THEN 1
    ELSE fields_cmp(a.inner, b.inner, FieldOrder(a.variant))

\* slice::sort_unstable: the permutation of v that is ascending under Ord
\* (equal elements are indistinguishable, so it is unique).
RECURSIVE sort_unstable(_)
sort_unstable(v) ==
    IF v = <<>> THEN <<>>
    ELSE LET rest == sort_unstable(Tail(v))
             k == Cardinality({i \in 1..Len(rest) : PrincipalIdentity_cmp(rest[i], Head(v)) < 0})
         IN  SubSeq(rest, 1, k) \o <<Head(v)>> \o SubSeq(rest, k + 1, Len(rest))

\* Vec::dedup: drops every element equal to the one before it.
RECURSIVE dedup(_)
dedup(v) ==
    IF Len(v) <= 1 THEN v
    ELSE LET d == dedup(SubSeq(v, 1, Len(v) - 1))
         IN  IF v[Len(v)] = v[Len(v) - 1] THEN d ELSE Append(d, v[Len(v)])

\* Principal::new with the dedup left out.
Principal_new_no_dedup(identities) == [identities |-> sort_unstable(identities)]

Principal_new(identities) == [identities |-> dedup(sort_unstable(identities))]

Principal_with_capacity(capacity) == [identities |-> <<>>]

\* Principal::add with the sort left out.
Principal_add_unsorted(self, identity) ==
    [identities |-> dedup(Append(self.identities, identity))]

Principal_add(self, identity) ==
    [identities |-> dedup(sort_unstable(Append(self.identities, identity)))]

Principal_as_slice(self) == self.identities

Principal_clear(self) == [identities |-> <<>>]

\* Vec::remove panics when index >= len; index is zero-based.
Principal_remove(self, index) ==
    IF index >= Len(self.identities) THEN Panic
    ELSE [identities |-> SubSeq(self.identities, 1, index)
                            \o SubSeq(self.identities, index + 2, Len(self.identities))]

Principal_truncate(self, len) ==
    IF len >= Len(self.identities) THEN self
    ELSE [identities |-> SubSeq(self.identities, 1, len)]

(***************************************************************************)
(* The specification of the Principal set: a Principal is built by new /   *)
(* from or with_capacity and then mutated by add, remove, truncate, clear. *)
(***************************************************************************)
MaxIdentities == 3

StrCom == <<"a", ".", "c", "o", "m">>

StrRegion == <<"u", "s", "-", "e", "a", "s", "t", "-", "1">>

IdentityPool ==
    { PrincipalIdentity("User", User_new(StrAws, Acct1, <<Slash>>, <<"u">>).val),
      PrincipalIdentity("Service", Service_new(<<"s", "3">>, Some(StrRegion), StrCom).val),
      PrincipalIdentity("Service", Service_new(<<"s", "3">>, None, StrCom).val),
      PrincipalIdentity("RootUser", RootUser_new(StrAws, Acct2).val),
      PrincipalIdentity("RootUser", RootUser_new(StrAws, Acct1).val),
      PrincipalIdentity("FederatedUser", FederatedUser_new(StrAws, Acct1, <<"f", "u">>).val),
      PrincipalIdentity("CanonicalUser", CanonicalUser_new(Rep("0", CanonicalUserIdLen)).val),
      PrincipalIdentity("AssumedRole", AssumedRole_new(StrAws, Acct1, <<"r">>, <<"s", "2">>).val),
      PrincipalIdentity("AssumedRole", AssumedRole_new(StrAws, Acct1, <<"r">>, <<"s", "1">>).val) }

PrincipalLive == {"principal", "added", "removed", "truncated", "cleared"}

InitPrincipal ==
    /\ pc = "principal_args"
    /\ in \in [identities : Strings(IdentityPool, MaxIdentities)]
              \cup [capacity : 0..MaxIdentities]
    /\ obj = None /\ txt = <<>> /\ out = None

PrincipalNew ==
    /\ pc = "principal_args" /\ "identities" \in DOMAIN in
    /\ obj' = Principal_new(in.identities)
    /\ pc' = "principal"
    /\ UNCHANGED <<in, txt, out>>

PrincipalWithCapacity ==
    /\ pc = "principal_args" /\ "capacity" \in DOMAIN in
    /\ obj' = Principal_with_capacity(in.capacity)
    /\ pc' = "principal"
    /\ UNCHANGED <<in, txt, out>>

PrincipalAdd ==
    /\ pc \in PrincipalLive
    /\ \E identity \in IdentityPool :
          /\ in' = identity
          /\ obj' = Principal_add(obj, identity)
    /\ pc' = "added"
    /\ UNCHANGED <<txt, out>>

PrincipalRemove ==
    /\ pc \in PrincipalLive
    /\ \E index \in 0..MaxIdentities :
          /\ in' = index
          /\ IF Principal_remove(obj, index) = Panic
             THEN pc' = "panicked" /\ obj' = obj
             ELSE pc' = "removed" /\ obj' = Principal_remove(obj, index)
    /\ UNCHANGED <<txt, out>>

PrincipalTruncate ==
    /\ pc \in PrincipalLive
    /\ \E len \in 0..MaxIdentities :
          /\ in' = len
          /\ obj' = Principal_truncate(obj, len)
    /\ pc' = "truncated"
    /\ UNCHANGED <<txt, out>>

PrincipalClear ==
    /\ pc \in PrincipalLive
    /\ obj' = Principal_clear(obj)
    /\ pc' = "cleared"
    /\ UNCHANGED <<in, txt, out>>

NextPrincipal ==
    \/ PrincipalNew
    \/ PrincipalWithCapacity
    \/ PrincipalAdd
    \/ PrincipalRemove
    \/ PrincipalTruncate
    \/ PrincipalClear

SpecPrincipal == InitPrincipal /\ [][NextPrincipal]_vars

StrictlyAscending(v) ==
    \A i \in 1..(Len(v) - 1) : PrincipalIdentity_cmp(v[i], v[i + 1]) < 0

\* C12: after any sequence of new/from, with_capacity, add, remove,
\* truncate and clear, as_slice() is strictly ascending under the ordering
\* of PrincipalIdentity, hence holds no two equal identities.
C12_PrincipalSorted ==
    pc \in PrincipalLive =>
        /\ StrictlyAscending(Principal_as_slice(obj))
        /\ \A i, j \in 1..Len(Principal_as_slice(obj)) :
              i # j => Principal_as_slice(obj)[i] # Principal_as_slice(obj)[j]

\* An add whose identity sorts before two identities already in the set.
C12_Witness ==
    /\ pc = "added"
    /\ Len(Principal_as_slice(obj)) >= 3
    /\ Principal_as_slice(obj)[1] = in

\* PrincipalIdentity::has_arn with only CanonicalUser excluded.
PrincipalIdentity_has_arn_service(self) == self.variant # "CanonicalUser"

PrincipalIdentity_has_arn(self) == self.variant \notin {"CanonicalUser", "Service"}

\* From<T> for PrincipalIdentity applied to the result of T::new.
PrincipalIdentity_from(variant, r) ==
    IF r.ok THEN OkVal(PrincipalIdentity(variant, r.val)) ELSE r

\* Ok(d.into()): a panic of the inner conversion propagates.
OkInto(arn) == IF arn = Panic THEN Panic ELSE OkVal(arn)

Arn_try_from_PrincipalIdentity(p) ==
    CASE p.variant = "AssumedRole" -> OkInto(Arn_from_AssumedRole(p.inner))
      [] p.variant = "CanonicalUser" -> CannotConvertToArn
      [] p.variant = "FederatedUser" -> OkInto(Arn_from_FederatedUser(p.inner))
      [] p.variant = "RootUser" -> OkInto(Arn_from_RootUser(p.inner))
      [] p.variant = "Service" -> CannotConvertToArn
      [] p.variant = "User" -> OkInto(Arn_from_User(p.inner))

(***************************************************************************)
(* The specification of the identity types: an identity is constructed     *)
(* from its arguments (or an Arn from its five segments), converted to an  *)
(* Arn, and an assumed-role Arn is converted back.                         *)
(***************************************************************************)
IdPartitions == {StrAws, <<>>, <<"U+00E9">>, <<"a", "-", "b">>}

IdAccounts == {Acct1, StrAws, <<"1">>, <<>>}

RoleNames ==
    {<<"r">>, <<>>, <<"r", Slash>>, <<"U+00E9">>, Rep("r", NameMaxLen), Rep("r", NameMaxLen + 1),
     <<"R", ",", "-", ".", "=", "@", "_", "0">>, StrAssumedRole}

SessionNames ==
    {<<"s", "1">>, <<"s">>, <<>>, <<"s", Slash, "1">>, <<"U+00E9">>, <<"=", ",">>,
     Rep("s", NameMaxLen), Rep("s", NameMaxLen + 1)}

FederatedUserNames ==
    {<<"f", "u">>, <<"f">>, <<>>, <<"f", Colon>>,
     Rep("f", FederatedUserNameMaxLen), Rep("f", FederatedUserNameMaxLen + 1)}

Paths ==
    {<<Slash>>, <<>>, <<"p">>, <<Slash, "p", Slash>>, <<Slash, "p">>, <<Slash, " ", Slash>>,
     <<Slash, "U+00E9", Slash>>, <<Slash, "~", "!", Slash>>,
     Rep(Slash, PathMaxLen), Rep(Slash, PathMaxLen + 1)}

UserNames == {<<"u">>, <<>>, <<"u", Slash>>, Rep("u", NameMaxLen), Rep("u", NameMaxLen + 1)}

ServiceNames ==
    {<<"s", "3">>, <<>>, <<"-", "s">>, <<"s", "-">>, <<"s", "-", ".", "x">>, <<"s", "_">>,
     Rep("s", ServiceNameMaxLen), Rep("s", ServiceNameMaxLen + 1)}

ServiceRegions == {None, Some(StrRegion), Some(<<"a">>), Some(<<>>)}

DnsSuffixes ==
    {StrCom, <<>>, <<".", "c">>, Rep("c", DnsSuffixMaxLen), Rep("c", DnsSuffixMaxLen + 1)}

CanonicalUserIds ==
    {Rep("0", CanonicalUserIdLen), Rep("f", CanonicalUserIdLen), <<>>,
     Rep("0", CanonicalUserIdLen - 1), Rep("0", CanonicalUserIdLen + 1),
     Rep("0", CanonicalUserIdLen - 1) \o <<"g">>, Rep("0", CanonicalUserIdLen - 1) \o <<"A">>,
     Rep("U+00E9", CanonicalUserIdLen \div 2)}

IdentityArgs ==
    [variant : {"AssumedRole"}, partition : IdPartitions, account_id : IdAccounts,
     role_name : RoleNames, session_name : SessionNames]
    \cup [variant : {"CanonicalUser"}, canonical_user_id : CanonicalUserIds]
    \cup [variant : {"FederatedUser"}, partition : IdPartitions, account_id : IdAccounts,
          user_name : FederatedUserNames]
    \cup [variant : {"RootUser"}, partition : IdPartitions, account_id : IdAccounts]
    \cup [variant : {"Service"}, service_name : ServiceNames, region : ServiceRegions,
          dns_suffix : DnsSuffixes]
    \cup [variant : {"User"}, partition : IdPartitions, account_id : IdAccounts,
          path : Paths, user_name : UserNames]

InitIdentity ==
    /\ obj = None /\ out = None /\ txt = <<>>
    /\ \/ pc = "identity_args" /\ in \in IdentityArgs
       \/ pc = "args" /\ in \in ArnArgs

AssumedRoleNew ==
    /\ pc = "identity_args" /\ in.variant = "AssumedRole"
    /\ obj' = PrincipalIdentity_from("AssumedRole",
                  AssumedRole_new(in.partition, in.account_id, in.role_name, in.session_name))
    /\ pc' = "identity"
    /\ UNCHANGED <<in, txt, out>>

CanonicalUserNew ==
    /\ pc = "identity_args" /\ in.variant = "CanonicalUser"
    /\ obj' = PrincipalIdentity_from("CanonicalUser", CanonicalUser_new(in.canonical_user_id))
    /\ pc' = "identity"
    /\ UNCHANGED <<in, txt, out>>

FederatedUserNew ==
    /\ pc = "identity_args" /\ in.variant = "FederatedUser"
    /\ obj' = PrincipalIdentity_from("FederatedUser",
                  FederatedUser_new(in.partition, in.account_id, in.user_name))
    /\ pc' = "identity"
    /\ UNCHANGED <<in, txt, out>>

RootUserNew ==
    /\ pc = "identity_args" /\ in.variant = "RootUser"
    /\ obj' = PrincipalIdentity_from("RootUser", RootUser_new(in.partition, in.account_id))
    /\ pc' = "identity"
    /\ UNCHANGED <<in, txt, out>>

ServiceNew ==
    /\ pc = "identity_args" /\ in.variant = "Service"
    /\ obj' = PrincipalIdentity_from("Service",
                  Service_new(in.service_name, in.region, in.dns_suffix))
    /\ pc' = "identity"
    /\ UNCHANGED <<in, txt, out>>

UserNew ==
    /\ pc = "identity_args" /\ in.variant = "User"
    /\ obj' = PrincipalIdentity_from("User",
                  User_new(in.partition, in.account_id, in.path, in.user_name))
    /\ pc' = "identity"
    /\ UNCHANGED <<in, txt, out>>

AssumedRoleIntoArn ==
    /\ pc = "identity" /\ obj.ok /\ obj.val.variant = "AssumedRole"
    /\ out' = Arn_from_AssumedRole(obj.val.inner)
    /\ pc' = "role_arn"
    /\ UNCHANGED <<in, obj, txt>>

AssumedRoleTryFrom ==
    /\ pc = "role_arn" /\ out # Panic
    /\ out' = AssumedRole_try_from(out)
    /\ pc' = "role_back"
    /\ UNCHANGED <<in, obj, txt>>

IdentityTryIntoArn ==
    /\ pc = "identity" /\ obj.ok
    /\ out' = [arn |-> Arn_try_from_PrincipalIdentity(obj.val),
               has_arn |-> PrincipalIdentity_has_arn(obj.val)]
    /\ pc' = "identity_arn"
    /\ UNCHANGED <<in, obj, txt>>

NextIdentity ==
    \/ AssumedRoleNew
    \/ CanonicalUserNew
    \/ FederatedUserNew
    \/ RootUserNew
    \/ ServiceNew
    \/ UserNew
    \/ ArnNew
    \/ AssumedRoleIntoArn
    \/ AssumedRoleTryFrom
    \/ IdentityTryIntoArn

SpecIdentity == InitIdentity /\ [][NextIdentity]_vars

\* C13: for an AssumedRole r, Arn::from(&r) has service "sts", an empty
\* region, the partition and account id of r and the resource
\* "assumed-role/" + role_name + "/" + session_name; converting that Arn
\* back with AssumedRole::try_from succeeds and gives a value equal to r.
C13_AssumedRoleRoundTrip ==
    /\ pc = "role_arn" =>
          out = [partition |-> obj.val.inner.partition, service |-> StrSts, region |-> <<>>,
                 account_id |-> obj.val.inner.account_id,
                 resource |-> StrAssumedRole \o <<Slash>> \o obj.val.inner.role_name
                                  \o <<Slash>> \o obj.val.inner.session_name]
    /\ pc = "role_back" => out = OkVal(obj.val.inner)

\* A round trip of a role whose partition is not ASCII and whose role name
\* uses the punctuation a name may hold.
C13_Witness ==
    /\ pc = "role_back"
    /\ out.ok
    /\ out.val.partition = <<"U+00E9">>
    /\ out.val.role_name = <<"R", ",", "-", ".", "=", "@", "_", "0">>
    /\ out.val.session_name = Rep("s", NameMaxLen)

\* C14: TryFrom<&PrincipalIdentity> for Arn gives Err(CannotConvertToArn)
\* exactly for CanonicalUser and Service and Ok for AssumedRole,
\* FederatedUser, RootUser and User; has_arn() is true exactly when the
\* conversion succeeds; the conversion neither panics nor reports a
\* validation error.
C14_HasArn ==
    pc = "identity_arn" =>
        /\ out.arn # Panic
        /\ obj.val.variant \in {"CanonicalUser", "Service"} <=> out.arn = CannotConvertToArn
        /\ obj.val.variant \in {"AssumedRole", "FederatedUser", "RootUser", "User"} <=> out.arn.ok
        /\ out.has_arn <=> out.arn.ok

\* A Service identity, with a region, refused with the dedicated error.
C14_Witness ==
    /\ pc = "identity_arn"
    /\ obj.val.variant = "Service"
    /\ obj.val.inner.region # None
    /\ out.arn = CannotConvertToArn
    /\ ~out.has_arn

\* The outcome of one field's check on its own, as a PrincipalError.
Lift(r) == IF r.ok THEN Ok ELSE PrincipalError_from(r)

MinLenCheck(name, max_length, kind) ==
    IF ~validate_name(name, max_length, kind).ok \/ ByteLen(name) < NameMinLen
    THEN PErr(kind, name)
    ELSE Ok

\* The per-field outcomes of a constructor call, in the documented order.
FieldChecks(a) ==
    CASE a.variant = "AssumedRole" ->
            <<Lift(validate_partition(a.partition)), Lift(validate_account_id(a.account_id)),
              validate_name(a.role_name, NameMaxLen, "InvalidRoleName"),
              MinLenCheck(a.session_name, NameMaxLen, "InvalidSessionName")>>
      [] a.variant = "FederatedUser" ->
            <<Lift(validate_partition(a.partition)), Lift(validate_account_id(a.account_id)),
              MinLenCheck(a.user_name, FederatedUserNameMaxLen, "InvalidFederatedUserName")>>
      [] a.variant = "RootUser" ->
            <<Lift(validate_partition(a.partition)), Lift(validate_account_id(a.account_id))>>
      [] a.variant = "User" ->
            <<Lift(validate_partition(a.partition)), Lift(validate_account_id(a.account_id)),
              validate_path(a.path),
              validate_name(a.user_name, NameMaxLen, "InvalidUserName")>>

ArnFieldChecks(a) ==
    <<validate_partition(a.partition), validate_service(a.service),
      IF a.region = <<>> THEN Ok ELSE validate_region(a.region),
      IF a.account_id = <<>> THEN Ok ELSE validate_account_id(a.account_id)>>

Failing(checks) == {i \in 1..Len(checks) : ~checks[i].ok}

FirstFailure(checks) == checks[CHOOSE i \in Failing(checks) : \A j \in Failing(checks) : i <= j]

FailsFirst(checks, r) ==
    IF Failing(checks) = {} THEN r.ok ELSE r = FirstFailure(checks)

\* C19: when several arguments of Arn::new, AssumedRole::new,
\* FederatedUser::new, RootUser::new or User::new are invalid, the one error
\* returned is that of the earliest invalid field in the order partition,
\* service, region, account id, then the path / name fields (role name
\* before session name, path before user name), and no value is built.
C19_FirstFailureWins ==
    /\ (pc = "identity" /\ in.variant \in {"AssumedRole", "FederatedUser", "RootUser", "User"})
          => FailsFirst(FieldChecks(in), obj)
    /\ pc = "constructed" => FailsFirst(ArnFieldChecks(in), obj)

\* User::new with a good partition and account id and both a bad path and a
\* bad user name: the path is the error reported.
C19_Witness ==
    /\ pc = "identity"
    /\ in.variant = "User"
    /\ Failing(FieldChecks(in)) = {3, 4}
    /\ obj = PErr("InvalidPath", in.path)

(***************************************************************************)
(* error.rs of both crates: the Display texts and the conversion of an     *)
(* ArnError into a PrincipalError.                                         *)
(***************************************************************************)
DoubleQuote == "\""

\* char::escape_debug inside a str: the quote, the backslash and the line
\* feed are escaped; printable characters are kept.
EscapeDebug(c) ==
    CASE c = DoubleQuote -> <<Backslash, DoubleQuote>>
      [] c = Backslash -> <<Backslash, Backslash>>
      [] c = LineFeed -> <<Backslash, "n">>
      [] OTHER -> <<c>>

RECURSIVE EscapeAll(_)
EscapeAll(s) == IF s = <<>> THEN <<>> ELSE EscapeDebug(Head(s)) \o EscapeAll(Tail(s))

\* {:#?} of a String.
Debug(s) == <<DoubleQuote>> \o EscapeAll(s) \o <<DoubleQuote>>

ArnError_display(err) ==
    CASE err.err = "InvalidAccountId" ->
            <<"I", "n", "v", "a", "l", "i", "d", " ", "a", "c", "c", "o", "u", "n", "t", " ", "i", "d", ":", " ">>
                \o Debug(err.arg)
      [] err.err = "InvalidArn" ->
            <<"I", "n", "v", "a", "l", "i", "d", " ", "A", "R", "N", ":", " ">>
                \o Debug(err.arg)
      [] err.err = "InvalidPartition" ->
            <<"I", "n", "v", "a", "l", "i", "d", " ", "p", "a", "r", "t", "i", "t", "i", "o", "n", ":", " ">>
                \o Debug(err.arg)
      [] err.err = "InvalidRegion" ->
            <<"I", "n", "v", "a", "l", "i", "d", " ", "r", "e", "g", "i", "o", "n", ":", " ">>
                \o Debug(err.arg)
      [] err.err = "InvalidResource" ->
            <<"I", "n", "v", "a", "l", "i", "d", " ", "r", "e", "s", "o", "u", "r", "c", "e", ":", " ">>
                \o Debug(err.arg)
      [] err.err = "InvalidScheme" ->
            <<"I", "n", "v", "a", "l", "i", "d", " ", "s", "c", "h", "e", "m", "e", ":", " ">>
                \o Debug(err.arg)
      [] err.err = "InvalidService" ->
            <<"I", "n", "v", "a", "l", "i", "d", " ", "s", "e", "r", "v", "i", "c", "e", " ", "n", "a", "m", "e", ":", " ">>
                \o Debug(err.arg)

StrCannotConvert ==
    <<"C", "a", "n", "n", "o", "t", " ", "c", "o", "n", "v", "e", "r", "t", " ", "e", "n", "t", "i", "t", "y", " ", "t", "o", " ", "A", "R", "N">>

PrincipalError_display(err) ==
    CASE err.perr = "CannotConvertToArn" -> StrCannotConvert
      [] err.perr = "InvalidArn" ->
            <<"I", "n", "v", "a", "l", "i", "d", " ", "A", "R", "N", ":", " ">>
                \o Debug(err.arg)
      [] err.perr = "InvalidAccountId" ->
            <<"I", "n", "v", "a", "l", "i", "d", " ", "a", "c", "c", "o", "u", "n", "t", " ", "i", "d", ":", " ">>
                \o Debug(err.arg)
      [] err.perr = "InvalidCanonicalUserId" ->
            <<"I", "n", "v", "a", "l", "i", "d", " ", "c", "a", "n", "o", "n", "i", "c", "a", "l", " ", "u", "s", "e", "r", " ", "i", "d", ":", " ">>
                \o Debug(err.arg)
      [] err.perr = "InvalidFederatedUserName" ->
            <<"I", "n", "v", "a", "l", "i", "d", " ", "f", "e", "d", "e", "r", "a", "t", "e", "d", " ", "u", "s", "e", "r", " ", "n", "a", "m", "e", ":", " ">>
                \o Debug(err.arg)
      [] err.perr = "InvalidGroupName" ->
            <<"I", "n", "v", "a", "l", "i", "d", " ", "g", "r", "o", "u", "p", " ", "n", "a", "m", "e", ":", " ">>
                \o Debug(err.arg)
      [] err.perr = "InvalidGroupId" ->
            <<"I", "n", "v", "a", "l", "i", "d", " ", "g", "r", "o", "u", "p", " ", "i", "d", ":", " ">>
                \o Debug(err.arg)
      [] err.perr = "InvalidInstanceProfileName" ->
            <<"I", "n", "v", "a", "l", "i", "d", " ", "i", "n", "s", "t", "a", "n", "c", "e", " ", "p", "r", "o", "f", "i", "l", "e", " ", "n", "a", "m", "e", ":", " ">>
                \o Debug(err.arg)
      [] err.perr = "InvalidInstanceProfileId" ->
            <<"I", "n", "v", "a", "l", "i", "d", " ", "i", "n", "s", "t", "a", "n", "c", "e", " ", "p", "r", "o", "f", "i", "l", "e", " ", "i", "d", ":", " ">>
                \o Debug(err.arg)
      [] err.perr = "InvalidPartition" ->
            <<"I", "n", "v", "a", "l", "i", "d", " ", "p", "a", "r", "t", "i", "t", "i", "o", "n", ":", " ">>
                \o Debug(err.arg)
      [] err.perr = "InvalidPath" ->
            <<"I", "n", "v", "a", "l", "i", "d", " ", "p", "a", "t", "h", ":", " ">>
                \o Debug(err.arg)
      [] err.perr = "InvalidRegion" ->
            <<"I", "n", "v", "a", "l", "i", "d", " ", "r", "e", "g", "i", "o", "n", ":", " ">>
                \o Debug(err.arg)
      [] err.perr = "InvalidResource" ->
            <<"I", "n", "v", "a", "l", "i", "d", " ", "r", "e", "s", "o", "u", "r", "c", "e", ":", " ">>
                \o Debug(err.arg)
      [] err.perr = "InvalidRoleName" ->
            <<"I", "n", "v", "a", "l", "i", "d", " ", "r", "o", "l", "e", " ", "n", "a", "m", "e", ":", " ">>
                \o Debug(err.arg)
      [] err.perr = "InvalidRoleId" ->
            <<"I", "n", "v", "a", "l", "i", "d", " ", "r", "o", "l", "e", " ", "i", "d", ":", " ">>
                \o Debug(err.arg)
      [] err.perr = "InvalidScheme" ->
            <<"I", "n", "v", "a", "l", "i", "d", " ", "s", "c", "h", "e", "m", "e", ":", " ">>
                \o Debug(err.arg)
      [] err.perr = "InvalidService" ->
            <<"I", "n", "v", "a", "l", "i", "d", " ", "s", "e", "r", "v", "i", "c", "e", " ", "n", "a", "m", "e", ":", " ">>
                \o Debug(err.arg)
      [] err.perr = "InvalidSessionName" ->
            <<"I", "n", "v", "a", "l", "i", "d", " ", "s", "e", "s", "s", "i", "o", "n", " ", "n", "a", "m", "e", ":", " ">>
                \o Debug(err.arg)
      [] err.perr = "InvalidUserName" ->
            <<"I", "n", "v", "a", "l", "i", "d", " ", "u", "s", "e", "r", " ", "n", "a", "m", "e", ":", " ">>
                \o Debug(err.arg)
      [] err.perr = "InvalidUserId" ->
            <<"I", "n", "v", "a", "l", "i", "d", " ", "u", "s", "e", "r", " ", "i", "d", ":", " ">>
                \o Debug(err.arg)

(***************************************************************************)
(* The specification of the error conversion: an ArnError is converted     *)
(* into a PrincipalError and both are formatted.                           *)
(***************************************************************************)
ArnErrorKinds ==
    {"InvalidAccountId", "InvalidArn", "InvalidPartition", "InvalidRegion",
     "InvalidResource", "InvalidScheme", "InvalidService"}

ErrChars == {"a", DoubleQuote, Backslash, LineFeed, "U+00E9"}

ArnErrors == {Err(kind, s) : kind \in ArnErrorKinds, s \in Strings(ErrChars, MaxShort)}

InitError ==
    /\ pc = "arn_error"
    /\ in \in ArnErrors
    /\ obj = None /\ txt = <<>> /\ out = None

PrincipalErrorFrom ==
    /\ pc = "arn_error"
    /\ obj' = PrincipalError_from(in)
    /\ pc' = "principal_error"
    /\ UNCHANGED <<in, txt, out>>

ErrorToString ==
    /\ pc = "principal_error"
    /\ txt' = ArnError_display(in)
    /\ out' = PrincipalError_display(obj)
    /\ pc' = "displayed"
    /\ UNCHANGED <<in, obj>>

NextError ==
    \/ PrincipalErrorFrom
    \/ ErrorToString

SpecError == InitError /\ [][NextError]_vars

\* C20: PrincipalError::from(ArnError) is total and lossless: each of the
\* seven ArnError kinds maps to the PrincipalError kind of its own, carrying
\* the same string; two different ArnError values never map to the same
\* PrincipalError; and the display text of the mapped error equals the
\* display text of the original.
C20_ErrorConversion ==
    /\ pc \in {"principal_error", "displayed"} =>
          /\ obj.perr = in.err
          /\ obj.arg = in.arg
          /\ \A e \in ArnErrors : e # in => PrincipalError_from(e) # obj
    /\ pc = "displayed" => txt = out

\* An InvalidResource error, whose string needs escaping, converted and
\* formatted.
C20_Witness ==
    /\ pc = "displayed"
    /\ in = Err("InvalidResource", <<DoubleQuote, LineFeed>>)
    /\ obj = PErr("InvalidResource", <<DoubleQuote, LineFeed>>)
    /\ out = <<"I", "n", "v", "a", "l", "i", "d", " ", "r", "e", "s", "o", "u", "r", "c", "e", ":", " ",
               DoubleQuote, Backslash, DoubleQuote, Backslash, "n", DoubleQuote>>

(***************************************************************************)
(* The policy / actor crate (src/src).  Its utils.rs has validators of its *)
(* own for the partition, the account id and the region, working on ASCII  *)
(* bytes; its validate_name, validate_path and validate_dns are the same   *)
(* code as in the principal crate and are modelled by the definitions      *)
(* above.  Its PrincipalError is written with PErr as well.                *)
(***************************************************************************)
utils_validate_account_id(account_id) ==
    IF ByteLen(account_id) # AccountIdLen THEN PErr("InvalidAccountId", account_id)
    ELSE IF \E i \in 1..Len(account_id) : ~IsAsciiDigit(account_id[i])
         THEN PErr("InvalidAccountId", account_id)
    ELSE Ok

\* The loop returns the same error from every failing position, and
\* last_was_dash at byte i says whether the byte before it is a dash.
utils_validate_partition(partition) ==
    IF ByteLen(partition) = 0 \/ ByteLen(partition) > PartitionMaxLen
    THEN PErr("InvalidPartition", partition)
    ELSE IF \E i \in 1..Len(partition) :
                IF partition[i] = "-"
                THEN i = 1 \/ i = Len(partition) \/ partition[i - 1] = "-"
                ELSE ~IsAsciiAlphanumeric(partition[i])
         THEN PErr("InvalidPartition", partition)
    ELSE Ok

utils_RegionStep(state, section, c) ==
    IF c = "-"
    THEN CASE state \in {"Start", "LastWasDash"} -> <<"Reject", section>>
           [] state = "LastWasAlpha" -> <<"LastWasDash", section>>
           [] state = "LastWasDigit" ->
                IF section = "Region" THEN <<"LastWasDash", "LocalRegion">>
                ELSE <<"Reject", section>>
    ELSE IF c \in AsciiLower
    THEN IF state \in {"Start", "LastWasDash", "LastWasAlpha"}
         THEN <<"LastWasAlpha", section>>
         ELSE <<"Reject", section>>
    ELSE IF IsAsciiDigit(c)
    THEN IF state \in {"LastWasDash", "LastWasDigit"}
         THEN <<"LastWasDigit", section>>
         ELSE <<"Reject", section>>
    ELSE <<"Reject", section>>

RECURSIVE utils_RegionScan(_, _, _, _)
utils_RegionScan(region, k, state, section) ==
    IF k > Len(region) THEN <<state, section>>
    ELSE LET n == utils_RegionStep(state, section, region[k]) IN
         IF n[1] = "Reject" THEN n
         ELSE utils_RegionScan(region, k + 1, n[1], n[2])

utils_validate_region(region) ==
    IF region = StrLocal THEN Ok
    ELSE IF utils_RegionScan(region, 1, "Start", "Region")[1] = "LastWasDigit" THEN Ok
    ELSE PErr("InvalidRegion", region)

IdentifierLen == 20

validate_identifier(id, prefix, map_err) ==
    IF ~starts_with(id, prefix) \/ ByteLen(id) # IdentifierLen THEN PErr(map_err, id)
    ELSE IF \E i \in 1..Len(id) :
                ~(id[i] \in AsciiLower \cup AsciiUpper \/ id[i] \in {"2", "3", "4", "5", "6", "7"})
         THEN PErr(map_err, id)
    ELSE Ok

\* The first failing check of a constructor's chain of `?`, or the value.
Checked(checks, value) ==
    IF \E i \in 1..Len(checks) : ~checks[i].ok
    THEN checks[CHOOSE i \in 1..Len(checks) : ~checks[i].ok /\ \A j \in 1..(i - 1) : checks[j].ok]
    ELSE OkVal(value)

(***************************************************************************)
(* src/src/policy: the principals a policy statement names.                *)
(***************************************************************************)
policy_Account_new(partition, account_id) ==
    Checked(<<utils_validate_partition(partition), utils_validate_account_id(account_id)>>,
            [partition |-> partition, account_id |-> account_id])

policy_AssumedRole_new(partition, account_id, role_name, session_name) ==
    Checked(<<utils_validate_partition(partition), utils_validate_account_id(account_id),
              validate_name(role_name, NameMaxLen, "InvalidRoleName"),
              validate_name(session_name, NameMaxLen, "InvalidSessionName"),
              IF ByteLen(session_name) < NameMinLen
              THEN PErr("InvalidSessionName", session_name) ELSE Ok>>,
            [partition |-> partition, account_id |-> account_id,
             role_name |-> role_name, session_name |-> session_name])

policy_FederatedUser_new(partition, account_id, user_name) ==
    Checked(<<utils_validate_partition(partition), utils_validate_account_id(account_id),
              validate_name(user_name, FederatedUserNameMaxLen, "InvalidFederatedUserName")>>,
            [partition |-> partition, account_id |-> account_id, user_name |-> user_name])

policy_Role_new(partition, account_id, path, role_name) ==
    Checked(<<utils_validate_partition(partition), utils_validate_account_id(account_id),
              validate_path(path), validate_name(role_name, NameMaxLen, "InvalidRoleName")>>,
            [partition |-> partition, account_id |-> account_id,
             path |-> path, role_name |-> role_name])

policy_Service_new(service_name, region, dns_suffix) ==
    Checked(<<validate_name(service_name, ServiceNameMaxLen, "InvalidServiceName"),
              IF region = None THEN Ok ELSE utils_validate_region(region.val)>>,
            [service_name |-> service_name, region |-> region, dns_suffix |-> dns_suffix])

policy_User_new(partition, account_id, path, user_name) ==
    Checked(<<utils_validate_partition(partition), utils_validate_account_id(account_id),
              validate_path(path), validate_name(user_name, NameMaxLen, "InvalidUserName")>>,
            [partition |-> partition, account_id |-> account_id,
             path |-> path, user_name |-> user_name])

(***************************************************************************)
(* src/src/actor: the principals that make a request.                      *)
(***************************************************************************)
StrAROA == <<"A", "R", "O", "A">>

StrAIDA == <<"A", "I", "D", "A">>

actor_AssumedRole_new(partition, account_id, role_id, role_name, session_name, session) ==
    Checked(<<utils_validate_partition(partition), utils_validate_account_id(account_id),
              validate_identifier(role_id, StrAROA, "InvalidRoleId"),
              validate_name(role_name, NameMaxLen, "InvalidRoleName"),
              validate_name(session_name, NameMaxLen, "InvalidSessionName"),
              IF ByteLen(session_name) < NameMinLen
              THEN PErr("InvalidSessionName", session_name) ELSE Ok>>,
            [partition |-> partition, account_id |-> account_id, role_id |-> role_id,
             role_name |-> role_name, session_name |-> session_name, session |-> session])

actor_FederatedUser_new(partition, account_id, user_name, session) ==
    Checked(<<utils_validate_partition(partition), utils_validate_account_id(account_id),
              validate_name(user_name, FederatedUserNameMaxLen, "InvalidFederatedUserName"),
              IF ByteLen(user_name) < NameMinLen
              THEN PErr("InvalidFederatedUserName", user_name) ELSE Ok>>,
            [partition |-> partition, account_id |-> account_id,
             user_name |-> user_name, session |-> session])

actor_RootUser_new(partition, account_id, session) ==
    Checked(<<utils_validate_partition(partition), utils_validate_account_id(account_id)>>,
            [partition |-> partition, account_id |-> account_id, session |-> session])

actor_Service_new(service_name, region, dns_suffix, session) ==
    Checked(<<validate_dns(service_name, ServiceNameMaxLen, "InvalidServiceName"),
              validate_dns(dns_suffix, DnsSuffixMaxLen, "InvalidServiceName"),
              IF region = None THEN Ok ELSE utils_validate_region(region.val),
              IF region = None THEN Ok
              ELSE validate_dns(region.val, ServiceNameMaxLen, "InvalidServiceName")>>,
            [service_name |-> service_name, region |-> region,
             dns_suffix |-> dns_suffix, session |-> session])

actor_User_new(partition, account_id, path, user_id, user_name, session) ==
    Checked(<<utils_validate_partition(partition), utils_validate_account_id(account_id),
              validate_identifier(user_id, StrAIDA, "InvalidUserId"),
              validate_path(path), validate_name(user_name, NameMaxLen, "InvalidUserName")>>,
            [partition |-> partition, account_id |-> account_id, path |-> path,
             user_id |-> user_id, user_name |-> user_name, session |-> session])
(***************************************************************************)
(* MatchesActor: one operator per policy type, with one arm per impl for   *)
(* an actor type.                                                          *)
(***************************************************************************)
SameAccount(self, other) ==
    self.partition = other.partition /\ self.account_id = other.account_id

\* The impls for the actors of an account, admitting only an actor whose
\* session holds no data.
policy_Account_matches_empty_session(self, other) ==
    CASE other.variant = "AssumedRole" ->
            SameAccount(self, other.inner) /\ other.inner.session = <<>>
      [] other.variant = "FederatedUser" ->
            SameAccount(self, other.inner) /\ other.inner.session = <<>>
      [] other.variant = "RootUser" ->
            SameAccount(self, other.inner) /\ other.inner.session = <<>>
      [] other.variant = "Service" -> FALSE
      [] other.variant = "User" ->
            SameAccount(self, other.inner) /\ other.inner.session = <<>>

policy_Account_matches(self, other) ==
    CASE other.variant = "AssumedRole" -> SameAccount(self, other.inner)
      [] other.variant = "FederatedUser" -> SameAccount(self, other.inner)
      [] other.variant = "RootUser" -> SameAccount(self, other.inner)
      [] other.variant = "Service" -> FALSE
      [] other.variant = "User" -> SameAccount(self, other.inner)

\* The impl for actor::AssumedRole without the session name.
policy_AssumedRole_matches_any_session(self, other) ==
    CASE other.variant = "AssumedRole" ->
            /\ self.partition = other.inner.partition
            /\ self.account_id = other.inner.account_id
            /\ self.role_name = other.inner.role_name
      [] other.variant = "FederatedUser" -> FALSE
      [] other.variant = "RootUser" -> FALSE
      [] other.variant = "Service" -> FALSE
      [] other.variant = "User" -> FALSE

policy_AssumedRole_matches(self, other) ==
    CASE other.variant = "AssumedRole" ->
            /\ self.partition = other.inner.partition
            /\ self.account_id = other.inner.account_id
            /\ self.role_name = other.inner.role_name
            /\ self.session_name = other.inner.session_name
      [] other.variant = "FederatedUser" -> FALSE
      [] other.variant = "RootUser" -> FALSE
      [] other.variant = "Service" -> FALSE
      [] other.variant = "User" -> FALSE

policy_FederatedUser_matches(self, other) ==
    CASE other.variant = "AssumedRole" -> FALSE
      [] other.variant = "FederatedUser" ->
            /\ self.partition = other.inner.partition
            /\ self.account_id = other.inner.account_id
            /\ self.user_name = other.inner.user_name
      [] other.variant = "RootUser" -> FALSE
      [] other.variant = "Service" -> FALSE
      [] other.variant = "User" -> FALSE

\* The impl for actor::AssumedRole without the role name.
policy_Role_matches_any_role(self, other) ==
    CASE other.variant = "AssumedRole" -> SameAccount(self, other.inner)
      [] other.variant = "FederatedUser" -> FALSE
      [] other.variant = "RootUser" -> FALSE
      [] other.variant = "Service" -> FALSE
      [] other.variant = "User" -> FALSE

policy_Role_matches(self, other) ==
    CASE other.variant = "AssumedRole" ->
            /\ self.partition = other.inner.partition
            /\ self.account_id = other.inner.account_id
            /\ self.role_name = other.inner.role_name
      [] other.variant = "FederatedUser" -> FALSE
      [] other.variant = "RootUser" -> FALSE
      [] other.variant = "Service" -> FALSE
      [] other.variant = "User" -> FALSE

\* The impl for actor::Service with a regionless actor admitted.
policy_Service_matches_regionless(self, other) ==
    CASE other.variant = "AssumedRole" -> FALSE
      [] other.variant = "FederatedUser" -> FALSE
      [] other.variant = "RootUser" -> FALSE
      [] other.variant = "Service" ->
            /\ self.service_name = other.inner.service_name
            /\ self.dns_suffix = other.inner.dns_suffix
            /\ CASE self.region = None -> TRUE
                 [] other.inner.region = None -> TRUE
                 [] OTHER -> self.region.val = other.inner.region.val
      [] other.variant = "User" -> FALSE

policy_Service_matches(self, other) ==
    CASE other.variant = "AssumedRole" -> FALSE
      [] other.variant = "FederatedUser" -> FALSE
      [] other.variant = "RootUser" -> FALSE
      [] other.variant = "Service" ->
            /\ self.service_name = other.inner.service_name
            /\ self.dns_suffix = other.inner.dns_suffix
            /\ CASE self.region = None -> TRUE
                 [] self.region # None /\ other.inner.region # None ->
                        self.region.val = other.inner.region.val
                 [] OTHER -> FALSE
      [] other.variant = "User" -> FALSE

\* The impl for actor::AssumedRole comparing the user name with the role name.
policy_User_matches_role(self, other) ==
    CASE other.variant = "AssumedRole" ->
            SameAccount(self, other.inner) /\ self.user_name = other.inner.role_name
      [] other.variant = "FederatedUser" -> FALSE
      [] other.variant = "RootUser" -> FALSE
      [] other.variant = "Service" -> FALSE
      [] other.variant = "User" ->
            /\ self.partition = other.inner.partition
            /\ self.account_id = other.inner.account_id
            /\ self.path = other.inner.path
            /\ self.user_name = other.inner.user_name

policy_User_matches(self, other) ==
    CASE other.variant = "AssumedRole" -> FALSE
      [] other.variant = "FederatedUser" -> FALSE
      [] other.variant = "RootUser" -> FALSE
      [] other.variant = "Service" -> FALSE
      [] other.variant = "User" ->
            /\ self.partition = other.inner.partition
            /\ self.account_id = other.inner.account_id
            /\ self.path = other.inner.path
            /\ self.user_name = other.inner.user_name

policy_Principal_matches(self, other) ==
    CASE self.variant = "Account" -> policy_Account_matches(self.inner, other)
      [] self.variant = "AssumedRole" -> policy_AssumedRole_matches(self.inner, other)
      [] self.variant = "FederatedUser" -> policy_FederatedUser_matches(self.inner, other)
      [] self.variant = "Role" -> policy_Role_matches(self.inner, other)
      [] self.variant = "Service" -> policy_Service_matches(self.inner, other)
      [] self.variant = "User" -> policy_User_matches(self.inner, other)

\* The enum variant wrapped around the result of T::new.
policy_Principal_from(variant, r) ==
    IF r.ok THEN OkVal([variant |-> variant, inner |-> r.val]) ELSE r

actor_Principal_from(variant, r) ==
    IF r.ok THEN OkVal([variant |-> variant, inner |-> r.val]) ELSE r

policy_Principal_new(a) ==
    policy_Principal_from(a.variant,
        CASE a.variant = "Account" -> policy_Account_new(a.partition, a.account_id)
          [] a.variant = "AssumedRole" ->
                policy_AssumedRole_new(a.partition, a.account_id, a.role_name, a.session_name)
          [] a.variant = "FederatedUser" ->
                policy_FederatedUser_new(a.partition, a.account_id, a.user_name)
          [] a.variant = "Role" -> policy_Role_new(a.partition, a.account_id, a.path, a.role_name)
          [] a.variant = "Service" -> policy_Service_new(a.service_name, a.region, a.dns_suffix)
          [] a.variant = "User" -> policy_User_new(a.partition, a.account_id, a.path, a.user_name))

actor_Principal_new(a) ==
    actor_Principal_from(a.variant,
        CASE a.variant = "AssumedRole" ->
                actor_AssumedRole_new(a.partition, a.account_id, a.role_id, a.role_name,
                                      a.session_name, a.session)
          [] a.variant = "FederatedUser" ->
                actor_FederatedUser_new(a.partition, a.account_id, a.user_name, a.session)
          [] a.variant = "RootUser" -> actor_RootUser_new(a.partition, a.account_id, a.session)
          [] a.variant = "Service" ->
                actor_Service_new(a.service_name, a.region, a.dns_suffix, a.session)
          [] a.variant = "User" ->
                actor_User_new(a.partition, a.account_id, a.path, a.user_id, a.user_name,
                               a.session))
(***************************************************************************)
(* The specification of matching: a policy principal and an actor are      *)
(* constructed from their arguments and the policy is asked whether it     *)
(* matches the actor.                                                      *)
(***************************************************************************)
StrRegion2 == <<"e", "u", "-", "w", "e", "s", "t", "-", "2">>

StrNet == <<"a", ".", "n", "e", "t">>

MatchPartitions == {StrAws, <<"a", "-", "b">>}

MatchAccounts == {Acct1, Acct2}

\* <<"n">> is a role or user name but too short for a session name.
MatchNames == {<<"n", "1">>, <<"n", "2">>, <<"n">>}

MatchPaths == {<<Slash>>, <<Slash, "p", Slash>>}

\* <<"s", "_">> is a service name for a policy but not for an actor.
MatchServiceNames == {<<"s", "3">>, <<"s", "_">>}

MatchRegions == {None, Some(StrRegion), Some(StrRegion2)}

MatchDnsSuffixes == {StrCom, StrNet}

RoleIds == {StrAROA \o Rep("A", IdentifierLen - 4)}

UserIds == {StrAIDA \o Rep("A", IdentifierLen - 4)}

Sessions == {<<>>, <<<<"k", "v">>>>}

PolicyArgs ==
    [variant : {"Account"}, partition : MatchPartitions \cup {<<"-">>}, account_id : MatchAccounts]
    \cup [variant : {"AssumedRole"}, partition : MatchPartitions, account_id : MatchAccounts,
          role_name : MatchNames, session_name : MatchNames]
    \cup [variant : {"FederatedUser"}, partition : MatchPartitions, account_id : MatchAccounts,
          user_name : MatchNames]
    \cup [variant : {"Role"}, partition : MatchPartitions, account_id : MatchAccounts,
          path : MatchPaths, role_name : MatchNames]
    \cup [variant : {"Service"}, service_name : MatchServiceNames, region : MatchRegions,
          dns_suffix : MatchDnsSuffixes]
    \cup [variant : {"User"}, partition : MatchPartitions, account_id : MatchAccounts,
          path : MatchPaths, user_name : MatchNames]

ActorArgs ==
    [variant : {"AssumedRole"}, partition : MatchPartitions, account_id : MatchAccounts,
     role_id : RoleIds, role_name : MatchNames, session_name : MatchNames, session : Sessions]
    \cup [variant : {"FederatedUser"}, partition : MatchPartitions, account_id : MatchAccounts,
          user_name : MatchNames, session : Sessions]
    \cup [variant : {"RootUser"}, partition : MatchPartitions, account_id : MatchAccounts,
          session : Sessions]
    \cup [variant : {"Service"}, service_name : MatchServiceNames, region : MatchRegions,
          dns_suffix : MatchDnsSuffixes, session : Sessions]
    \cup [variant : {"User"}, partition : MatchPartitions, account_id : MatchAccounts,
          path : MatchPaths, user_id : UserIds, user_name : MatchNames, session : Sessions]

InitMatch ==
    /\ pc = "match_args"
    /\ in \in [policy : PolicyArgs, actor : ActorArgs]
    /\ obj = None /\ txt = <<>> /\ out = None

PolicyNew ==
    /\ pc = "match_args"
    /\ obj' = [policy |-> policy_Principal_new(in.policy)]
    /\ pc' = "policy"
    /\ UNCHANGED <<in, txt, out>>

ActorNew ==
    /\ pc = "policy" /\ obj.policy.ok
    /\ obj' = [policy |-> obj.policy, actor |-> actor_Principal_new(in.actor)]
    /\ pc' = "actor"
    /\ UNCHANGED <<in, txt, out>>

PolicyMatches ==
    /\ pc = "actor" /\ obj.actor.ok
    /\ out' = OkVal(policy_Principal_matches(obj.policy.val, obj.actor.val))
    /\ pc' = "actor_matched"
    /\ UNCHANGED <<in, obj, txt>>

(***************************************************************************)
(* ToArn / TryToArn of the policy and actor principals.  Each to_arn is    *)
(* the format! of its source, literal text included.                       *)
(***************************************************************************)
StrArnColon == StrArn \o <<Colon>>

StrStsAccount == <<Colon>> \o StrSts \o <<Colon, Colon>>

StrIamAccount == <<Colon>> \o StrIam \o <<Colon, Colon>>

policy_Account_to_arn(self) ==
    StrArnColon \o self.partition \o StrIamAccount \o self.account_id \o <<Colon>> \o StrRoot

policy_AssumedRole_to_arn(self) ==
    StrArnColon \o self.partition \o StrStsAccount \o self.account_id
        \o <<Colon>> \o StrAssumedRole \o <<Slash>> \o self.role_name
        \o <<Slash>> \o self.session_name

\* The literal of the source: service iam and resource type "federated-use".
policy_FederatedUser_to_arn(self) ==
    StrArnColon \o self.partition \o StrIamAccount \o self.account_id
        \o <<Colon, "f", "e", "d", "e", "r", "a", "t", "e", "d", "-", "u", "s", "e", Slash>>
        \o self.user_name

policy_Role_to_arn(self) ==
    StrArnColon \o self.partition \o StrIamAccount \o self.account_id
        \o <<Colon, "r", "o", "l", "e">> \o self.path \o self.role_name

policy_User_to_arn(self) ==
    StrArnColon \o self.partition \o StrIamAccount \o self.account_id
        \o <<Colon>> \o StrUser \o self.path \o self.user_name

policy_Principal_try_to_arn(self) ==
    CASE self.variant = "Account" -> Some(policy_Account_to_arn(self.inner))
      [] self.variant = "AssumedRole" -> Some(policy_AssumedRole_to_arn(self.inner))
      [] self.variant = "FederatedUser" -> Some(policy_FederatedUser_to_arn(self.inner))
      [] self.variant = "Role" -> Some(policy_Role_to_arn(self.inner))
      [] self.variant = "Service" -> None
      [] self.variant = "User" -> Some(policy_User_to_arn(self.inner))

actor_AssumedRole_to_arn(self) ==
    StrArnColon \o self.partition \o StrStsAccount \o self.account_id
        \o <<Colon>> \o StrAssumedRole \o <<Slash>> \o self.role_name
        \o <<Slash>> \o self.session_name

actor_FederatedUser_to_arn(self) ==
    StrArnColon \o self.partition \o StrStsAccount \o self.account_id
        \o <<Colon>> \o StrFederatedUser \o <<Slash>> \o self.user_name

\* The literal of the source names the partition "aws".
actor_RootUser_to_arn(self) ==
    StrArnColon \o StrAws \o StrIamAccount \o self.account_id \o <<Colon>> \o StrRoot

\* The literal of the source names the partition "aws".
actor_User_to_arn(self) ==
    StrArnColon \o StrAws \o StrIamAccount \o self.account_id
        \o <<Colon>> \o StrUser \o self.path \o self.user_name

actor_Principal_try_to_arn(self) ==
    CASE self.variant = "AssumedRole" -> Some(actor_AssumedRole_to_arn(self.inner))
      [] self.variant = "FederatedUser" -> Some(actor_FederatedUser_to_arn(self.inner))
      [] self.variant = "RootUser" -> Some(actor_RootUser_to_arn(self.inner))
      [] self.variant = "Service" -> None
      [] self.variant = "User" -> Some(actor_User_to_arn(self.inner))

PolicyTryToArn ==
    /\ pc = "policy" /\ obj.policy.ok
    /\ out' = policy_Principal_try_to_arn(obj.policy.val)
    /\ pc' = "policy_arn"
    /\ UNCHANGED <<in, obj, txt>>

ActorTryToArn ==
    /\ pc = "actor" /\ obj.actor.ok
    /\ out' = actor_Principal_try_to_arn(obj.actor.val)
    /\ pc' = "actor_arn"
    /\ UNCHANGED <<in, obj, txt>>

NextMatch ==
    \/ PolicyNew
    \/ ActorNew
    \/ PolicyMatches
    \/ PolicyTryToArn
    \/ ActorTryToArn

SpecMatch == InitMatch /\ [][NextMatch]_vars

\* The (policy variant, actor variant) pairs that may match.
MatchingPairs ==
    ({"Account"} \X {"AssumedRole", "FederatedUser", "RootUser", "User"})
    \cup {<<"AssumedRole", "AssumedRole">>, <<"Role", "AssumedRole">>,
          <<"FederatedUser", "FederatedUser">>, <<"User", "User">>, <<"Service", "Service">>}

PolicyIs(variant) == pc = "actor_matched" /\ obj.policy.val.variant = variant

ActorIs(variant) == pc = "actor_matched" /\ obj.actor.val.variant = variant

\* C15: policy.matches(actor) is false, whatever the field values, when the
\* pair (policy variant, actor variant) is not one of Account x {AssumedRole,
\* FederatedUser, RootUser, User}, AssumedRole x AssumedRole, Role x
\* AssumedRole, FederatedUser x FederatedUser, User x User, Service x Service.
C15_CrossTable ==
    pc = "actor_matched" =>
        (<<obj.policy.val.variant, obj.actor.val.variant>> \notin MatchingPairs => ~out.val)

\* A policy User against an assumed role of the same partition and account
\* whose role name is the user's name.
C15_Witness ==
    /\ PolicyIs("User") /\ ActorIs("AssumedRole")
    /\ SameAccount(obj.policy.val.inner, obj.actor.val.inner)
    /\ obj.policy.val.inner.user_name = obj.actor.val.inner.role_name
    /\ ~out.val

\* C16: a policy Role matches an actor AssumedRole iff partition, account id
\* and role_name are equal; the session name of the actor and the path of
\* the Role play no part.
C16_RoleMatch ==
    (PolicyIs("Role") /\ ActorIs("AssumedRole")) =>
        (out.val <=> /\ obj.policy.val.inner.partition = obj.actor.val.inner.partition
                     /\ obj.policy.val.inner.account_id = obj.actor.val.inner.account_id
                     /\ obj.policy.val.inner.role_name = obj.actor.val.inner.role_name)

\* A Role under the path /p/ admitting a session of that role.
C16_Witness ==
    /\ PolicyIs("Role") /\ ActorIs("AssumedRole")
    /\ obj.policy.val.inner.path = <<Slash, "p", Slash>>
    /\ obj.actor.val.inner.session_name = <<"n", "2">>
    /\ obj.actor.val.inner.role_name = <<"n">>
    /\ out.val

\* C17: a policy AssumedRole matches an actor AssumedRole iff partition,
\* account id, role_name and session_name are all equal.
C17_AssumedRoleMatch ==
    (PolicyIs("AssumedRole") /\ ActorIs("AssumedRole")) =>
        (out.val <=> /\ obj.policy.val.inner.partition = obj.actor.val.inner.partition
                     /\ obj.policy.val.inner.account_id = obj.actor.val.inner.account_id
                     /\ obj.policy.val.inner.role_name = obj.actor.val.inner.role_name
                     /\ obj.policy.val.inner.session_name = obj.actor.val.inner.session_name)

\* Two assumed roles that differ only in the session name.
C17_Witness ==
    /\ PolicyIs("AssumedRole") /\ ActorIs("AssumedRole")
    /\ SameAccount(obj.policy.val.inner, obj.actor.val.inner)
    /\ obj.policy.val.inner.role_name = obj.actor.val.inner.role_name
    /\ obj.policy.val.inner.session_name # obj.actor.val.inner.session_name
    /\ ~out.val

\* C18: a policy Service matches an actor Service iff service_name and
\* dns_suffix are equal and either the policy has no region or both have a
\* region and the regions are equal; a policy with a region never matches
\* an actor without one.
C18_ServiceMatch ==
    (PolicyIs("Service") /\ ActorIs("Service")) =>
        /\ out.val <=>
              /\ obj.policy.val.inner.service_name = obj.actor.val.inner.service_name
              /\ obj.policy.val.inner.dns_suffix = obj.actor.val.inner.dns_suffix
              /\ \/ obj.policy.val.inner.region = None
                 \/ /\ obj.policy.val.inner.region # None
                    /\ obj.actor.val.inner.region = obj.policy.val.inner.region
        /\ (obj.policy.val.inner.region # None /\ obj.actor.val.inner.region = None) => ~out.val

\* A regional policy Service against the global service of the same name.
C18_Witness ==
    /\ PolicyIs("Service") /\ ActorIs("Service")
    /\ obj.policy.val.inner.service_name = obj.actor.val.inner.service_name
    /\ obj.policy.val.inner.dns_suffix = obj.actor.val.inner.dns_suffix
    /\ obj.policy.val.inner.region # None
    /\ obj.actor.val.inner.region = None
    /\ ~out.val

\* arn:{partition}:{service}::{account_id}:{resource}
ArnTemplate(partition, service, account_id, resource) ==
    Arn_to_string(Segs(partition, service, <<>>, account_id, resource))

\* The documented display string of a principal of the given variant.
DisplayTemplate(variant, p) ==
    CASE variant = "AssumedRole" ->
            ArnTemplate(p.partition, StrSts, p.account_id,
                StrAssumedRole \o <<Slash>> \o p.role_name \o <<Slash>> \o p.session_name)
      [] variant = "FederatedUser" ->
            ArnTemplate(p.partition, StrSts, p.account_id,
                StrFederatedUser \o <<Slash>> \o p.user_name)
      [] variant = "User" ->
            ArnTemplate(p.partition, StrIam, p.account_id, StrUser \o p.path \o p.user_name)
      [] variant = "RootUser" -> ArnTemplate(p.partition, StrIam, p.account_id, StrRoot)

Displayed(model) ==
    IF pc = "policy_arn" THEN model = "policy" ELSE pc = "actor_arn" /\ model = "actor"

DisplayedValue == IF pc = "policy_arn" THEN obj.policy.val ELSE obj.actor.val

\* C21: the to_arn string of every constructed AssumedRole, FederatedUser
\* and User, policy or actor, is the documented template filled with the
\* principal's own fields, and a RootUser gives its bare account id or
\* arn:{partition}:iam::{account_id}:root with its own partition.
C21_DisplayTemplates ==
    (Displayed("policy") \/ Displayed("actor")) =>
        /\ DisplayedValue.variant \in {"AssumedRole", "FederatedUser", "User"} =>
              out = Some(DisplayTemplate(DisplayedValue.variant, DisplayedValue.inner))
        /\ DisplayedValue.variant = "RootUser" =>
              \/ out = Some(DisplayedValue.inner.account_id)
              \/ out = Some(DisplayTemplate("RootUser", DisplayedValue.inner))

(***************************************************************************)
(* The derived PartialEq and Ord of Arn: the fields are compared in        *)
(* declaration order and the first unequal field decides.                  *)
(***************************************************************************)
Arn_eq(a, b) ==
    /\ a.partition = b.partition
    /\ a.service = b.service
    /\ a.region = b.region
    /\ a.account_id = b.account_id
    /\ a.resource = b.resource

\* The comparison with account_id declared before region.
Arn_cmp_account_first(a, b) ==
    LET c1 == str_cmp(a.partition, b.partition)
        c2 == str_cmp(a.service, b.service)
        c3 == str_cmp(a.account_id, b.account_id)
        c4 == str_cmp(a.region, b.region)
    IN  IF c1 # 0 THEN c1
        ELSE IF c2 # 0 THEN c2
        ELSE IF c3 # 0 THEN c3
        ELSE IF c4 # 0 THEN c4
        ELSE str_cmp(a.resource, b.resource)

Arn_cmp(a, b) ==
    LET c1 == str_cmp(a.partition, b.partition)
        c2 == str_cmp(a.service, b.service)
        c3 == str_cmp(a.region, b.region)
        c4 == str_cmp(a.account_id, b.account_id)
    IN  IF c1 # 0 THEN c1
        ELSE IF c2 # 0 THEN c2
        ELSE IF c3 # 0 THEN c3
        ELSE IF c4 # 0 THEN c4
        ELSE str_cmp(a.resource, b.resource)

Arn_lt(a, b) == Arn_cmp(a, b) < 0

OrderPartitions == {StrAws, StrAws \o <<"-", "c", "n">>}

OrderServices == {<<"e", "c", "2">>, <<"s", "3">>}

OrderRegions == {<<>>, StrRegion}

OrderAccounts == {Acct1, Acct2}

OrderResources == {<<"a">>, <<"a", Slash, "b">>}

OrderArgs ==
    [partition : OrderPartitions, service : OrderServices, region : OrderRegions,
     account_id : OrderAccounts, resource : OrderResources]

InitOrder ==
    /\ pc = "order_args"
    /\ in \in [a : OrderArgs, b : OrderArgs, c : OrderArgs]
    /\ obj = None /\ txt = <<>> /\ out = None

ArnNewThree ==
    /\ pc = "order_args"
    /\ LET New(x) == Arn_new(x.partition, x.service, x.region, x.account_id, x.resource)
       IN  obj' = [a |-> New(in.a), b |-> New(in.b), c |-> New(in.c)]
    /\ pc' = "order_arns"
    /\ UNCHANGED <<in, txt, out>>

ArnCompare ==
    /\ pc = "order_arns" /\ obj.a.ok /\ obj.b.ok /\ obj.c.ok
    /\ LET a == obj.a.val
           b == obj.b.val
           c == obj.c.val
       IN  out' = [eq_ab |-> Arn_eq(a, b), lt_ab |-> Arn_lt(a, b), lt_ba |-> Arn_lt(b, a),
                   lt_bc |-> Arn_lt(b, c), lt_ac |-> Arn_lt(a, c)]
    /\ pc' = "order_compared"
    /\ UNCHANGED <<in, obj, txt>>

NextOrder ==
    \/ ArnNewThree
    \/ ArnCompare

SpecOrder == InitOrder /\ [][NextOrder]_vars

\* The precedence of the segments.
SegmentPrecedence == <<"partition", "service", "region", "account_id", "resource">>

\* The segments, in precedence order, on which a and b differ.
Differing(a, b) == {i \in 1..Len(SegmentPrecedence) : a[SegmentPrecedence[i]] # b[SegmentPrecedence[i]]}

\* a is before b in the lexicographic order: they differ, and at the first
\* differing segment a's string is the smaller.
LexBefore(a, b) ==
    /\ Differing(a, b) # {}
    /\ LET k == CHOOSE i \in Differing(a, b) : \A j \in Differing(a, b) : i <= j
       IN  str_cmp(a[SegmentPrecedence[k]], b[SegmentPrecedence[k]]) < 0

\* C22: the order of Arns is total and lexicographic over (partition,
\* service, region, account_id, resource): exactly one of a<b, a==b, a>b
\* holds, a<b and b<c give a<c, a==b iff all five segments are equal, and
\* the first differing segment decides whatever the later segments are.
C22_ArnTotalOrder ==
    pc = "order_compared" =>
        /\ Cardinality({x \in {"lt_ab", "eq_ab", "lt_ba"} : out[x]}) = 1
        /\ (out.lt_ab /\ out.lt_bc) => out.lt_ac
        /\ out.eq_ab <=> Differing(obj.a.val, obj.b.val) = {}
        /\ out.lt_ab <=> LexBefore(obj.a.val, obj.b.val)
        /\ out.lt_ba <=> LexBefore(obj.b.val, obj.a.val)

\* a has the smaller region and the larger account id and resource, and is
\* less than b; b is less than a c of a later partition.
C22_Witness ==
    /\ pc = "order_compared"
    /\ obj.a.val.partition = obj.b.val.partition /\ obj.a.val.service = obj.b.val.service
    /\ str_cmp(obj.a.val.region, obj.b.val.region) < 0
    /\ str_cmp(obj.a.val.account_id, obj.b.val.account_id) > 0
    /\ str_cmp(obj.a.val.resource, obj.b.val.resource) > 0
    /\ out.lt_ab /\ out.lt_bc /\ out.lt_ac

(***************************************************************************)
(* The two region scanners side by side: validate_region of the arn crate  *)
(* and of src/src/utils.rs, each applied once to the drawn input.          *)
(***************************************************************************)
UtilsValidateRegion ==
    /\ pc = "ready"
    /\ pc' = "utils_validate_region"
    /\ out' = utils_validate_region(in)
    /\ UNCHANGED <<in, obj, txt>>

NextRegion ==
    \/ ValidateRegion
    \/ UtilsValidateRegion

SpecRegion == InitValidate /\ [][NextRegion]_vars

\* The number of '-digits' groups of s: the places where a digit follows a '-'.
DashDigitGroups(s) ==
    Cardinality({k \in 1..(Len(s) - 1) : s[k] = "-" /\ IsAsciiDigit(s[k + 1])})

\* The state and section of the scan in progress after the first k characters.
ScanAfter(s, k) ==
    IF pc = "validate_region" THEN RegionScan(SubSeq(s, 1, k), 1, "Start", "Region")
    ELSE utils_RegionScan(SubSeq(s, 1, k), 1, "Start", "Region")

InvalidRegion(s) ==
    IF pc = "validate_region" THEN Err("InvalidRegion", s) ELSE PErr("InvalidRegion", s)

\* C23: the region scanner admits at most one local-region suffix: a '-'
\* that follows a digit once the scan is in the LocalRegion section rejects,
\* every region with three or more '-digits' groups is rejected with
\* InvalidRegion, and a scanned region ("local" is accepted before the scan
\* begins) is accepted only if the scan ends in LastWasDigit.
C23_OneLocalSuffix ==
    pc \in {"validate_region", "utils_validate_region"} =>
        /\ \A k \in 1..(Len(in) - 1) :
              (ScanAfter(in, k) = <<"LastWasDigit", "LocalRegion">> /\ in[k + 1] = "-")
                  => out = InvalidRegion(in)
        /\ DashDigitGroups(in) >= 3 => out = InvalidRegion(in)
        /\ (out.ok /\ in # StrLocal) => ScanAfter(in, Len(in))[1] = "LastWasDigit"

\* us-east-1-bos-1-lax-1 is rejected.
C23_Witness ==
    /\ pc = "validate_region"
    /\ in = <<"u", "s", "-", "e", "a", "s", "t", "-", "1", "-", "b", "o", "s", "-", "1",
              "-", "l", "a", "x", "-", "1">>
    /\ DashDigitGroups(in) = 3
    /\ ScanAfter(in, 15) = <<"LastWasDigit", "LocalRegion">>
    /\ out = Err("InvalidRegion", in)

(***************************************************************************)
(* AssumedRole::try_from applied to Arns of every shape: other services,   *)
(* a region, resources with too few or too many parts, fields that         *)
(* AssumedRole::new rejects.                                               *)
(***************************************************************************)
TryFromResources ==
    LET role == StrAssumedRole \o <<Slash>> IN
    { role \o <<"r", "1", Slash, "s", "1">>,
      role \o <<"r", "1">>,
      role \o <<"r", "1", Slash, "s", "1", Slash, "x">>,
      StrUser \o <<Slash, "r", "1", Slash, "s", "1">>,
      role \o <<"r", "+", Slash, "s", "1">>,
      role \o <<"r", "1", Slash, "s", "+">>,
      role \o <<"r", "1", Slash, "s">>,
      role \o <<Slash, "s", "1">>,
      role \o <<"r", "1", Slash>>,
      StrAssumedRole,
      <<"A">> \o Tail(role) \o <<"r", "1", Slash, "s", "1">>,
      <<>> }

TryFromArgs ==
    [partition : {StrAws, <<"a", "-", "b">>},
     service : {StrSts, StrIam, <<"s", "3">>},
     region : {<<>>, StrRegion},
     account_id : {<<>>, Acct1, StrAws},
     resource : TryFromResources]

InitTryFrom ==
    /\ pc = "args"
    /\ in \in TryFromArgs
    /\ obj = None /\ txt = <<>> /\ out = None

AssumedRoleTryFromArn ==
    /\ pc = "constructed" /\ obj.ok
    /\ out' = AssumedRole_try_from(obj.val)
    /\ pc' = "role_parsed"
    /\ UNCHANGED <<in, obj, txt>>

NextTryFrom ==
    \/ ArnNew
    \/ AssumedRoleTryFromArn

SpecTryFrom == InitTryFrom /\ [][NextTryFrom]_vars

\* The positions of the '/' characters of s.
SlashesOf(s) == {i \in 1..Len(s) : s[i] = Slash}

\* s is assumed-role/{x}/{y} with no '/' in x or y.
IsAssumedRoleResource(s) ==
    /\ Cardinality(SlashesOf(s)) = 2
    /\ starts_with(s, StrAssumedRole \o <<Slash>>)

\* The text after the n-th '/' of s, up to the next '/' or the end.
PartAfterSlash(s, n) ==
    LET i == CHOOSE k \in SlashesOf(s) : Cardinality({j \in SlashesOf(s) : j < k}) = n - 1
        later == {k \in SlashesOf(s) : k > i}
        e == IF later = {} THEN Len(s) + 1 ELSE CHOOSE k \in later : \A j \in later : k <= j
    IN  SubSeq(s, i + 1, e - 1)

\* C24: AssumedRole::try_from(&Arn) answers InvalidService(service) unless
\* the service is "sts"; else InvalidRegion(region) unless the region is
\* empty; else InvalidResource(resource) unless the resource split on '/'
\* has exactly 3 parts, the first "assumed-role"; only then the result of
\* AssumedRole::new on partition, account id, role name and session name,
\* which is InvalidAccountId for an empty account id.
C24_TryFromOrder ==
    pc = "role_parsed" =>
        LET arn == obj.val IN
        /\ arn.service # StrSts => out = PErr("InvalidService", arn.service)
        /\ (arn.service = StrSts /\ arn.region # <<>>) => out = PErr("InvalidRegion", arn.region)
        /\ (arn.service = StrSts /\ arn.region = <<>> /\ ~IsAssumedRoleResource(arn.resource))
              => out = PErr("InvalidResource", arn.resource)
        /\ (arn.service = StrSts /\ arn.region = <<>> /\ IsAssumedRoleResource(arn.resource))
              => /\ out = AssumedRole_new(arn.partition, arn.account_id,
                              PartAfterSlash(arn.resource, 1), PartAfterSlash(arn.resource, 2))
                 /\ arn.account_id = <<>> => out = PErr("InvalidAccountId", <<>>)

\* An sts Arn of the right shape with an empty account id.
C24_Witness ==
    /\ pc = "role_parsed"
    /\ obj.val.service = StrSts /\ obj.val.region = <<>>
    /\ obj.val.resource = StrAssumedRole \o <<Slash, "r", "1", Slash, "s", "1">>
    /\ obj.val.account_id = <<>>
    /\ out = PErr("InvalidAccountId", <<>>)

\* The characters of a name: ASCII alphanumerics and , - . = @ _
NameChar(c) ==
    \/ c \in AsciiLower \cup AsciiUpper \cup AsciiDigit
    \/ c \in {",", "-", ".", "=", "@", "_"}

\* s has lo to hi characters, all of them name characters.
NameOf(s, lo, hi) == Len(s) \in lo..hi /\ \A i \in 1..Len(s) : NameChar(s[i])

AssumedRoleBuilt == pc = "identity" /\ in.variant = "AssumedRole"

\* C25: AssumedRole::new succeeds iff the partition and the account id are
\* valid, role_name has 1 to 64 and session_name 2 to 64 characters, all
\* ASCII alphanumerics or , - . = @ _; with the other arguments valid a
\* session_name of length 0, 1 or 65 gives InvalidSessionName and a
\* role_name of length 0 or 65 gives InvalidRoleName; lengths 64 are
\* accepted.
C25_AssumedRoleLengths ==
    AssumedRoleBuilt =>
        LET ids == validate_partition(in.partition).ok /\ validate_account_id(in.account_id).ok
            role == NameOf(in.role_name, 1, NameMaxLen)
            session == NameOf(in.session_name, NameMinLen, NameMaxLen)
        IN  /\ obj.ok <=> (ids /\ role /\ session)
            /\ obj.ok => obj.val.inner = [partition |-> in.partition, account_id |-> in.account_id,
                                          role_name |-> in.role_name,
                                          session_name |-> in.session_name]
            /\ Len(in.session_name) \in {0, 1, NameMaxLen + 1} =>
                  /\ ~obj.ok
                  /\ (ids /\ role) => obj = PErr("InvalidSessionName", in.session_name)
            /\ Len(in.role_name) \in {0, NameMaxLen + 1} =>
                  /\ ~obj.ok
                  /\ ids => obj = PErr("InvalidRoleName", in.role_name)
            /\ (ids /\ in.role_name = Rep("r", NameMaxLen)
                    /\ in.session_name = Rep("s", NameMaxLen)) => obj.ok

\* A session name of one character with every other argument valid.
C25_Witness ==
    /\ AssumedRoleBuilt
    /\ in.partition = StrAws /\ in.account_id = Acct1
    /\ in.role_name = Rep("r", NameMaxLen)
    /\ in.session_name = <<"s">>
    /\ obj = PErr("InvalidSessionName", <<"s">>)

(***************************************************************************)
(* The derived PartialEq and Hash of Principal, and two Principals built   *)
(* from two vectors: each by Principal::new, and one more by add, element  *)
(* by element, from an empty Principal.                                    *)
(***************************************************************************)
Principal_eq(self, other) == self.identities = other.identities

\* What hash() writes to the hasher: the length of the Vec, then its elements.
Principal_hash(self) == <<Len(self.identities)>> \o self.identities

PairPool ==
    { PrincipalIdentity("User", User_new(StrAws, Acct1, <<Slash>>, <<"u">>).val),
      PrincipalIdentity("AssumedRole", AssumedRole_new(StrAws, Acct1, <<"r">>, <<"s", "2">>).val),
      PrincipalIdentity("AssumedRole", AssumedRole_new(StrAws, Acct1, <<"r">>, <<"s", "1">>).val) }

InitPair ==
    /\ pc = "pair_args"
    /\ in \in [v : Strings(PairPool, MaxIdentities), w : Strings(PairPool, MaxIdentities)]
    /\ obj = None /\ txt = <<>> /\ out = None

PrincipalNewPair ==
    /\ pc = "pair_args"
    /\ obj' = [p |-> Principal_new(in.v), q |-> Principal_new(in.w),
               built |-> Principal_with_capacity(0)]
    /\ pc' = "pair"
    /\ UNCHANGED <<in, txt, out>>

\* add of the next element of w to the Principal that started empty; txt
\* holds the elements added so far.
PrincipalAddEach ==
    /\ pc = "pair" /\ Len(txt) < Len(in.w)
    /\ obj' = [obj EXCEPT !.built = Principal_add(obj.built, in.w[Len(txt) + 1])]
    /\ txt' = Append(txt, in.w[Len(txt) + 1])
    /\ UNCHANGED <<pc, in, out>>

PrincipalCompare ==
    /\ pc = "pair" /\ txt = in.w
    /\ out' = [eq |-> Principal_eq(obj.p, obj.q),
               slice_eq |-> Principal_as_slice(obj.p) = Principal_as_slice(obj.q),
               hash_eq |-> Principal_hash(obj.p) = Principal_hash(obj.q),
               built_eq |-> Principal_eq(obj.built, obj.q)]
    /\ pc' = "pair_compared"
    /\ UNCHANGED <<in, obj, txt>>

\* add of an identity the built Principal already holds.
PrincipalAddPresent ==
    /\ pc = "pair" /\ txt = in.w
    /\ \E i \in 1..Len(in.w) :
          /\ obj' = [obj EXCEPT !.built = Principal_add(obj.built, in.w[i])]
          /\ out' = [identity |-> in.w[i], before |-> obj.built]
    /\ pc' = "pair_readded"
    /\ UNCHANGED <<in, txt>>

NextPair ==
    \/ PrincipalNewPair
    \/ PrincipalAddEach
    \/ PrincipalCompare
    \/ PrincipalAddPresent

SpecPair == InitPair /\ [][NextPair]_vars

\* The set of the elements of a vector.
ElementsOf(v) == {v[i] : i \in 1..Len(v)}

\* C26: Principal equality depends only on the set of identities: new
\* applied to two vectors with the same identities, in any order and with
\* any repetitions, gives equal Principals, equal slices and equal hashes
\* (and unequal Principals for different sets); add of each identity to an
\* empty Principal, in any order, gives Principal::new of the identities;
\* add of an identity already present changes nothing.
C26_PrincipalEquality ==
    /\ pc = "pair_compared" =>
          /\ ElementsOf(in.v) = ElementsOf(in.w) => (out.eq /\ out.slice_eq /\ out.hash_eq)
          /\ ElementsOf(in.v) # ElementsOf(in.w) => ~out.eq
          /\ out.built_eq
    /\ pc = "pair_readded" => Principal_eq(obj.built, out.before)

\* Three identities given in two different orders, one of them with a
\* repetition dropped, compare equal.
C26_Witness ==
    /\ pc = "pair_compared"
    /\ Cardinality(ElementsOf(in.v)) = 2
    /\ Len(in.v) = 3 /\ Len(in.w) = 2
    /\ in.v[1] = in.w[2] /\ in.v[3] = in.w[1] /\ in.v[2] = in.v[1]
    /\ out.eq /\ out.hash_eq /\ out.built_eq

(***************************************************************************)
(* session.rs: SessionData, a HashMap<String, SessionValue> whose keys     *)
(* pass through str::to_lowercase at every entry point.                    *)
(*                                                                         *)
(* "U+03A3" is the Greek capital sigma, "U+03C3" the small sigma and       *)
(* "U+03C2" the small final sigma.  str::to_lowercase maps each character  *)
(* to its lowercase, except that a capital sigma becomes the final sigma   *)
(* when a cased letter precedes it and none follows it.                    *)
(***************************************************************************)
IsCased(c) == c \in AsciiLower \cup AsciiUpper \cup {"U+00E9", "U+03A3", "U+03C3", "U+03C2"}

char_to_lowercase(c) ==
    IF c \in AsciiUpper
    THEN AsciiTable[(CHOOSE i \in 1..Len(AsciiTable) : AsciiTable[i] = c) + 32]
    ELSE c

to_lowercase(s) ==
    [i \in 1..Len(s) |->
        IF s[i] = "U+03A3"
        THEN IF (i > 1 /\ IsCased(s[i - 1])) /\ ~(i < Len(s) /\ IsCased(s[i + 1]))
             THEN "U+03C2" ELSE "U+03C3"
        ELSE char_to_lowercase(s[i])]

\* A HashMap is a function from its keys; these are the std operations.
HashMap_new == <<>>

HashMap_get(map, k) == IF k \in DOMAIN map THEN Some(map[k]) ELSE None

HashMap_insert(map, k, v) == [x \in DOMAIN map \cup {k} |-> IF x = k THEN v ELSE map[x]]

HashMap_remove(map, k) == [x \in DOMAIN map \ {k} |-> map[x]]

SessionData_new == [variables |-> HashMap_new]

SessionData_contains_key(self, k) == to_lowercase(k) \in DOMAIN self.variables

SessionData_get(self, key) == HashMap_get(self.variables, to_lowercase(key))

\* insert storing the key as given.
SessionData_insert_as_given(self, key, value) ==
    [self |-> [variables |-> HashMap_insert(self.variables, key, value)],
     ret |-> HashMap_get(self.variables, key)]

SessionData_insert(self, key, value) ==
    [self |-> [variables |-> HashMap_insert(self.variables, to_lowercase(key), value)],
     ret |-> HashMap_get(self.variables, to_lowercase(key))]

\* get_mut followed by a write through the reference it returns.
SessionData_get_mut(self, key, value) ==
    IF to_lowercase(key) \in DOMAIN self.variables
    THEN [self |-> [variables |-> HashMap_insert(self.variables, to_lowercase(key), value)],
          ret |-> Some(to_lowercase(key))]
    ELSE [self |-> self, ret |-> None]

\* entry(key).or_insert(value): the value is written only to a vacant entry.
SessionData_entry(self, key, value) ==
    IF to_lowercase(key) \in DOMAIN self.variables
    THEN self
    ELSE [variables |-> HashMap_insert(self.variables, to_lowercase(key), value)]

SessionData_remove(self, key) ==
    [self |-> [variables |-> HashMap_remove(self.variables, to_lowercase(key))],
     ret |-> HashMap_get(self.variables, to_lowercase(key))]

SessionData_len(self) == Cardinality(DOMAIN self.variables)

\* Index: get(..).unwrap() panics on an absent key.
SessionData_index(self, key) ==
    IF to_lowercase(key) \in DOMAIN self.variables
    THEN self.variables[to_lowercase(key)] ELSE Panic

\* Extend: each pair of the iterator is inserted, in order, under its
\* lowercased key.
RECURSIVE SessionData_extend(_, _)
SessionData_extend(self, iter) ==
    IF iter = <<>> THEN self
    ELSE SessionData_extend(
            [variables |-> HashMap_insert(self.variables, to_lowercase(iter[1][1]), iter[1][2])],
            Tail(iter))

\* From<HashMap>, From<[(K, SessionValue); N]> and FromIterator: the same
\* loop of inserts into a new map, over the pairs in iteration order.
SessionData_from(variables) == SessionData_extend(SessionData_new, variables)

MaxPairs == 2

SessionKeys ==
    {<<"k">>, <<"K">>, <<"k", "U+03A3">>, <<"k", "U+03C3">>}

SessionValues == {[tag |-> "Integer", val |-> 100], [tag |-> "Integer", val |-> 200]}

SessionLive ==
    {"session", "inserted", "extended", "entered", "removed", "got", "contained",
     "got_mut", "indexed", "counted"}

InitSession ==
    /\ pc = "session_args"
    /\ in \in [variables : Strings(SessionKeys \X SessionValues, MaxPairs)]
    /\ obj = None /\ txt = <<>> /\ out = None

SessionNew ==
    /\ pc = "session_args" /\ in.variables = <<>>
    /\ obj' = SessionData_new
    /\ pc' = "session"
    /\ UNCHANGED <<in, txt, out>>

\* From an array or an iterator: the pairs in the order given.
SessionFromIterator ==
    /\ pc = "session_args"
    /\ obj' = SessionData_from(in.variables)
    /\ pc' = "session"
    /\ UNCHANGED <<in, txt, out>>

\* From a HashMap: its keys are distinct as given, and the map is iterated
\* in an arbitrary order.
SessionFromHashMap ==
    /\ pc = "session_args"
    /\ \A i, j \in 1..Len(in.variables) : in.variables[i][1] = in.variables[j][1] => i = j
    /\ \E order \in Strings(SessionKeys \X SessionValues, MaxPairs) :
          /\ Len(order) = Len(in.variables)
          /\ {order[i] : i \in 1..Len(order)} = {in.variables[i] : i \in 1..Len(in.variables)}
          /\ obj' = SessionData_from(order)
    /\ pc' = "session"
    /\ UNCHANGED <<in, txt, out>>

SessionInsert ==
    /\ pc \in SessionLive
    /\ \E key \in SessionKeys, value \in SessionValues :
          /\ in' = [key |-> key, value |-> value]
          /\ obj' = SessionData_insert(obj, key, value).self
          /\ out' = SessionData_insert(obj, key, value).ret
    /\ pc' = "inserted"
    /\ UNCHANGED txt

SessionExtend ==
    /\ pc \in SessionLive
    /\ \E iter \in Strings(SessionKeys \X SessionValues, MaxPairs) :
          /\ in' = [count |-> Len(iter)]
          /\ obj' = SessionData_extend(obj, iter)
    /\ pc' = "extended"
    /\ UNCHANGED <<txt, out>>

SessionEntry ==
    /\ pc \in SessionLive
    /\ \E key \in SessionKeys, value \in SessionValues :
          /\ in' = [key |-> key, value |-> value]
          /\ obj' = SessionData_entry(obj, key, value)
    /\ pc' = "entered"
    /\ UNCHANGED <<txt, out>>

SessionRemove ==
    /\ pc \in SessionLive
    /\ \E key \in SessionKeys :
          /\ in' = [key |-> key]
          /\ obj' = SessionData_remove(obj, key).self
          /\ out' = SessionData_remove(obj, key).ret
    /\ pc' = "removed"
    /\ UNCHANGED txt

SessionGet ==
    /\ pc \in SessionLive
    /\ \E key \in SessionKeys :
          /\ in' = [key |-> key]
          /\ out' = SessionData_get(obj, key)
    /\ pc' = "got"
    /\ UNCHANGED <<obj, txt>>

SessionContainsKey ==
    /\ pc \in SessionLive
    /\ \E key \in SessionKeys :
          /\ in' = [key |-> key]
          /\ out' = SessionData_contains_key(obj, key)
    /\ pc' = "contained"
    /\ UNCHANGED <<obj, txt>>

SessionGetMut ==
    /\ pc \in SessionLive
    /\ \E key \in SessionKeys, value \in SessionValues :
          /\ in' = [key |-> key, value |-> value]
          /\ obj' = SessionData_get_mut(obj, key, value).self
          /\ out' = SessionData_get_mut(obj, key, value).ret
    /\ pc' = "got_mut"
    /\ UNCHANGED txt

SessionIndex ==
    /\ pc \in SessionLive
    /\ \E key \in SessionKeys :
          /\ in' = [key |-> key]
          /\ out' = SessionData_index(obj, key)
          /\ pc' = IF SessionData_index(obj, key) = Panic THEN "session_panicked" ELSE "indexed"
    /\ UNCHANGED <<obj, txt>>

SessionLen ==
    /\ pc \in SessionLive
    /\ out' = SessionData_len(obj)
    /\ in' = None
    /\ pc' = "counted"
    /\ UNCHANGED <<obj, txt>>

NextSession ==
    \/ SessionNew
    \/ SessionFromIterator
    \/ SessionFromHashMap
    \/ SessionInsert
    \/ SessionExtend
    \/ SessionEntry
    \/ SessionRemove
    \/ SessionGet
    \/ SessionContainsKey
    \/ SessionGetMut
    \/ SessionIndex
    \/ SessionLen

SpecSession == InitSession /\ [][NextSession]_vars

\* The letter of a character without its case: the capital sigma and both
\* small sigmas are one letter.
CaseFold(c) == IF c \in {"U+03A3", "U+03C2"} THEN "U+03C3" ELSE char_to_lowercase(c)

\* a and b differ at most in the case of their letters.
CaseVariant(a, b) == Len(a) = Len(b) /\ \A i \in 1..Len(a) : CaseFold(a[i]) = CaseFold(b[i])

\* a and b have the same lowercase form.
SameLowercase(a, b) == to_lowercase(a) = to_lowercase(b)

HasUppercase(s) == \E i \in 1..Len(s) : s[i] \in AsciiUpper \cup {"U+03A3"}

\* The entries of the map whose key is a variant of the key k.
EntriesOf(Variant(_, _), k) == {x \in DOMAIN obj.variables : Variant(x, k)}

\* Case-insensitivity of the map under a relation of key variants: stored
\* keys are lowercase, no two entries are variants of each other, and each
\* operation on a key addresses the one entry that is a variant of it.
CaseInsensitiveUnder(Variant(_, _)) ==
    pc \in SessionLive =>
        /\ \A k \in DOMAIN obj.variables : ~HasUppercase(k)
        /\ \A k1, k2 \in DOMAIN obj.variables : Variant(k1, k2) => k1 = k2
        /\ pc \in {"inserted", "entered"} =>
              /\ Cardinality(EntriesOf(Variant, in.key)) = 1
              /\ pc = "inserted" => \A x \in EntriesOf(Variant, in.key) : obj.variables[x] = in.value
        /\ pc = "got" =>
              /\ \A x \in EntriesOf(Variant, in.key) : out = Some(obj.variables[x])
              /\ EntriesOf(Variant, in.key) = {} => out = None
        /\ pc = "contained" => (out <=> EntriesOf(Variant, in.key) # {})
        /\ pc = "indexed" => \A x \in EntriesOf(Variant, in.key) : out = obj.variables[x]
        /\ pc = "got_mut" =>
              /\ \A x \in EntriesOf(Variant, in.key) : out = Some(x) /\ obj.variables[x] = in.value
              /\ EntriesOf(Variant, in.key) = {} => out = None
        /\ pc = "removed" => EntriesOf(Variant, in.key) = {}
        /\ pc = "counted" =>
              out = Cardinality({to_lowercase(k) : k \in DOMAIN obj.variables})

\* C27 as stated: the map is case-insensitive on its keys: get,
\* contains_key, get_mut, remove and indexing with any case variant of a key
\* address the same single entry, and two keys that differ only in case
\* share one entry.
C27_CaseVariants == CaseInsensitiveUnder(CaseVariant)

\* C27: the map is insensitive to the case of its keys as far as
\* str::to_lowercase is: every stored key is lowercase; get, contains_key,
\* get_mut, remove and indexing with any key of the same lowercase form
\* address the same single entry; inserting under two such keys leaves one
\* entry holding the last value written; len() counts distinct lowercased
\* keys.
C27_SameLowercase == CaseInsensitiveUnder(SameLowercase)

\* The entry stored under "k" is read as "K", beside an entry written
\* under a key ending in a capital sigma.
C27_Witness ==
    /\ pc = "got"
    /\ in.key = <<"K">>
    /\ DOMAIN obj.variables = {<<"k">>, <<"k", "U+03C2">>}
    /\ out = Some([tag |-> "Integer", val |-> 200])

(***************************************************************************)
(* The conversion of a constructed identity to an Arn.                     *)
(***************************************************************************)
\* The five segments From<&T> for Arn passes to Arn::new for an identity.
ArnSegmentsOf(p) ==
    CASE p.variant = "AssumedRole" ->
             [partition |-> p.inner.partition, service |-> StrSts, region |-> <<>>,
              account_id |-> p.inner.account_id,
              resource |-> StrAssumedRole \o <<Slash>> \o p.inner.role_name
                               \o <<Slash>> \o p.inner.session_name]
      [] p.variant = "FederatedUser" ->
             [partition |-> p.inner.partition, service |-> StrSts, region |-> <<>>,
              account_id |-> p.inner.account_id,
              resource |-> StrFederatedUser \o <<Slash>> \o p.inner.user_name]
      [] p.variant = "RootUser" ->
             [partition |-> p.inner.partition, service |-> StrIam, region |-> <<>>,
              account_id |-> p.inner.account_id, resource |-> StrRoot]
      [] p.variant = "User" ->
             [partition |-> p.inner.partition, service |-> StrIam, region |-> <<>>,
              account_id |-> p.inner.account_id,
              resource |-> StrUser \o p.inner.path \o p.inner.user_name]

ActorVariants == {"AssumedRole", "FederatedUser", "RootUser", "User"}

\* C28: for every AssumedRole, FederatedUser, RootUser and User value its
\* constructor accepted, the Arn::new call inside From<&T> for Arn returns
\* Ok (the Arn holding exactly the segments passed), so that the unwrap()
\* never panics.
C28_ConversionNeverPanics ==
    /\ (pc = "identity_arn" /\ obj.val.variant \in ActorVariants) =>
          /\ out.arn = OkVal(ArnSegmentsOf(obj.val))
          /\ Arn_new(ArnSegmentsOf(obj.val).partition, ArnSegmentsOf(obj.val).service,
                     ArnSegmentsOf(obj.val).region, ArnSegmentsOf(obj.val).account_id,
                     ArnSegmentsOf(obj.val).resource).ok
    /\ pc = "role_arn" => out = ArnSegmentsOf(obj.val)

\* A user of account "aws" in a partition that is not ASCII, with a path of
\* punctuation and a name of the greatest length, converted.
C28_Witness ==
    /\ pc = "identity_arn"
    /\ obj.val.variant = "User"
    /\ obj.val.inner.account_id = StrAws
    /\ obj.val.inner.partition = <<"U+00E9">>
    /\ obj.val.inner.path = <<Slash, "~", "!", Slash>>
    /\ obj.val.inner.user_name = Rep("u", NameMaxLen)
    /\ out.arn.ok

(***************************************************************************)
(* Matching and the data an actor carries beside its name: a policy        *)
(* principal and two actors are constructed, the second from the arguments *)
(* of the first with another unique id and other session data, and the     *)
(* policy is asked whether it matches each.                                *)
(***************************************************************************)
OtherRoleIds == RoleIds \cup {StrAROA \o Rep("B", IdentifierLen - 4)}

OtherUserIds == UserIds \cup {StrAIDA \o Rep("B", IdentifierLen - 4)}

OtherSessions == Sessions \cup {<<<<"k", "w">>, <<"j", "v">>>>}

\* The arguments of an actor with the unique id and the session replaced.
OtherActorArgs(a, role_id, user_id, session) ==
    CASE a.variant = "AssumedRole" -> [a EXCEPT !.role_id = role_id, !.session = session]
      [] a.variant = "User" -> [a EXCEPT !.user_id = user_id, !.session = session]
      [] OTHER -> [a EXCEPT !.session = session]

InitSide ==
    /\ pc = "side_args"
    /\ in \in [policy : PolicyArgs, actor : ActorArgs, role_id : OtherRoleIds,
               user_id : OtherUserIds, session : OtherSessions]
    /\ (in.actor.variant # "AssumedRole" => in.role_id \in RoleIds)
    /\ (in.actor.variant # "User" => in.user_id \in UserIds)
    /\ obj = None /\ txt = <<>> /\ out = None

SidePolicyNew ==
    /\ pc = "side_args"
    /\ obj' = [policy |-> policy_Principal_new(in.policy)]
    /\ pc' = "side_policy"
    /\ UNCHANGED <<in, txt, out>>

SideActorNew ==
    /\ pc = "side_policy" /\ obj.policy.ok
    /\ obj' = [policy |-> obj.policy, actor |-> actor_Principal_new(in.actor)]
    /\ pc' = "side_actor"
    /\ UNCHANGED <<in, txt, out>>

SideOtherNew ==
    /\ pc = "side_actor" /\ obj.actor.ok
    /\ obj' = [policy |-> obj.policy, actor |-> obj.actor,
               other |-> actor_Principal_new(
                             OtherActorArgs(in.actor, in.role_id, in.user_id, in.session))]
    /\ pc' = "side_other"
    /\ UNCHANGED <<in, txt, out>>

SideMatches ==
    /\ pc = "side_other" /\ obj.other.ok
    /\ out' = [actor |-> policy_Principal_matches(obj.policy.val, obj.actor.val),
               other |-> policy_Principal_matches(obj.policy.val, obj.other.val)]
    /\ pc' = "side_matched"
    /\ UNCHANGED <<in, obj, txt>>

NextSide ==
    \/ SidePolicyNew
    \/ SideActorNew
    \/ SideOtherNew
    \/ SideMatches

SpecSide == InitSide /\ [][NextSide]_vars

SideFields == {"role_id", "user_id", "session"}

\* Two actors of one variant that agree on every field but the unique id
\* and the session data.
AgreeButSide(a, b) ==
    /\ a.variant = b.variant
    /\ DOMAIN a.inner = DOMAIN b.inner
    /\ \A f \in DOMAIN a.inner \ SideFields : a.inner[f] = b.inner[f]

\* C29: for a policy principal p and two actors of the same variant that
\* agree on partition, account id, path and names (for a service: service
\* name, region and dns suffix) and differ in the unique role id or user id
\* or in the SessionData, p.matches gives the same result for both.
C29_SideChannelFree ==
    (pc = "side_matched" /\ AgreeButSide(obj.actor.val, obj.other.val)) =>
        out.actor = out.other

\* A policy Role that matches two assumed roles of its name whose role ids
\* and session data both differ.
C29_Witness ==
    /\ pc = "side_matched"
    /\ obj.policy.val.variant = "Role"
    /\ obj.actor.val.variant = "AssumedRole"
    /\ AgreeButSide(obj.actor.val, obj.other.val)
    /\ obj.actor.val.inner.role_id # obj.other.val.inner.role_id
    /\ obj.actor.val.inner.session # obj.other.val.inner.session
    /\ out.actor /\ out.other

(***************************************************************************)
(* A pattern made from the text of an Arn: two Arns are constructed, the   *)
(* first is written out, the text is parsed as an ArnPattern, the pattern  *)
(* is written out and matched against the second Arn.                      *)
(***************************************************************************)
ArnSegmentPattern_to_string(self) ==
    CASE self.variant = "Empty" -> <<>>
      [] self.variant = "Any" -> <<"*">>
      [] self.variant = "Exact" -> self.value
      [] self.variant = "StartsWith" -> self.value \o <<"*">>
      [] self.variant = "Regex" -> self.orig

ArnPattern_to_string(self) ==
    StrArn \o <<Colon>> \o ArnSegmentPattern_to_string(self.partition)
        \o <<Colon>> \o ArnSegmentPattern_to_string(self.service)
        \o <<Colon>> \o ArnSegmentPattern_to_string(self.region)
        \o <<Colon>> \o ArnSegmentPattern_to_string(self.account_id)
        \o <<Colon>> \o ArnSegmentPattern_to_string(self.resource)

ExactPartitions == {StrAws, <<"U+00E9">>}

ExactServices == {<<"s", "3">>, <<"e", "c">>}

ExactRegions == {<<>>, StrRegion}

ExactAccounts == {<<>>, Acct1, StrAws}

ExactResources ==
    {<<"r">>, <<"r", ":", "x">>, <<"r", ".">>, <<"r", "x">>, <<"r", "*">>, <<"r", "?">>, <<"*">>, <<>>}

ExactArgs ==
    [partition : ExactPartitions, service : ExactServices, region : ExactRegions,
     account_id : ExactAccounts, resource : ExactResources]

InitExact ==
    /\ pc = "exact_args"
    /\ in \in [a : ExactArgs, b : ExactArgs]
    /\ obj = None /\ txt = <<>> /\ out = None

ArnNewPair ==
    /\ pc = "exact_args"
    /\ LET New(x) == Arn_new(x.partition, x.service, x.region, x.account_id, x.resource)
       IN  obj' = [a |-> New(in.a), b |-> New(in.b)]
    /\ pc' = "exact_arns"
    /\ UNCHANGED <<in, txt, out>>

ArnPairToString ==
    /\ pc = "exact_arns" /\ obj.a.ok /\ obj.b.ok
    /\ txt' = Arn_to_string(obj.a.val)
    /\ pc' = "exact_text"
    /\ UNCHANGED <<in, obj, out>>

ExactPatternFromStr ==
    /\ pc = "exact_text"
    /\ obj' = [a |-> obj.a, b |-> obj.b, p |-> ArnPattern_from_str(txt)]
    /\ pc' = "exact_pattern"
    /\ UNCHANGED <<in, txt, out>>

ExactPatternToString ==
    /\ pc = "exact_pattern" /\ obj.p.ok
    /\ out' = [text |-> ArnPattern_to_string(obj.p.val)]
    /\ pc' = "exact_shown"
    /\ UNCHANGED <<in, obj, txt>>

ExactPatternMatches ==
    /\ pc = "exact_shown"
    /\ out' = [text |-> out.text,
               matches |-> ArnPattern_matches(obj.p.val, obj.b.val),
               eq |-> Arn_eq(obj.a.val, obj.b.val)]
    /\ pc' = "exact_matched"
    /\ UNCHANGED <<in, obj, txt>>

NextExact ==
    \/ ArnNewPair
    \/ ArnPairToString
    \/ ExactPatternFromStr
    \/ ExactPatternToString
    \/ ExactPatternMatches

SpecExact == InitExact /\ [][NextExact]_vars

WildcardFree(s) == \A i \in 1..Len(s) : s[i] \notin {"*", "?"}

\* The first Arn is valid and its resource holds neither '*' nor '?'.
ExactCase(at) ==
    /\ pc = at
    /\ WildcardFree(obj.a.val.resource)

\* C30: for every valid Arn a whose resource contains neither '*' nor '?',
\* ArnPattern::from_str(a.to_string()) parses, the pattern's to_string() is
\* a.to_string(), and for every valid Arn b the pattern matches b if and
\* only if b == a; an empty region or account segment of the pattern
\* matches only an empty segment.
C30_ExactPattern ==
    /\ ExactCase("exact_pattern") => obj.p.ok
    /\ ExactCase("exact_shown") => out.text = txt
    /\ ExactCase("exact_matched") =>
          /\ out.text = txt
          /\ out.matches <=> out.eq
          /\ out.matches <=> obj.b.val = obj.a.val
          /\ (obj.a.val.region = <<>> /\ out.matches) => obj.b.val.region = <<>>
          /\ (obj.a.val.account_id = <<>> /\ out.matches) => obj.b.val.account_id = <<>>

\* A pattern with an empty region and an empty account id, whose resource
\* holds ':', refusing the Arn that differs from it only by having a region.
C30_Witness ==
    /\ ExactCase("exact_matched")
    /\ obj.a.val.region = <<>> /\ obj.a.val.account_id = <<>>
    /\ obj.a.val.resource = <<"r", ":", "x">>
    /\ obj.b.val = [obj.a.val EXCEPT !.region = StrRegion]
    /\ ~out.matches

====
